---- MODULE Spec2Model ----
(***************************************************************************)
(* Global constraints of cpmpy/expressions/globalconstraints.py: for each  *)
(* constraint its constructor, its value() under a concrete assignment and *)
(* the lists returned by decompose(), evaluated as expression trees.       *)
(*                                                                         *)
(* Python lists are functions over 0..n-1 where the source indexes them    *)
(* and sequences (1..n) where the source only iterates over them.          *)
(***************************************************************************)
EXTENDS Integers, Sequences, FiniteSets, TLC

VARIABLES
    pc,      \* position of the caller: "new", "built", "valued", "done", "raised"
    call,    \* the caller's constructor call: the class and the argument objects
    name,    \* Expression.name of the constraint under study, "" while none exists
    args,    \* Expression.args; in the value()/decompose() specifications each
             \* variable is replaced by its value (argvals)
    raised,  \* the exception the constructor raised, "" if none
    value,   \* outcome of the call of value()
    decomp   \* outcome of the call of decompose(), with its truth under args

vars == <<pc, call, name, args, raised, value, decomp>>

-----------------------------------------------------------------------------
(* Bounds of the model *)

\* largest number of successor variables of a Circuit
CircuitMaxN == 4
\* how far below 0 and above n-1 the value of a successor may lie
CircuitSlack == 1
\* largest number of successor variables of a SubCircuit
SubCircuitMaxN == 4
\* largest number of successor variables of a SubCircuitWithStart
WithStartMaxN == 4
\* how far below 0 and above n-1 the value of such a successor may lie
WithStartSlack == 1
\* longest argument list handed to a constructor
MaxArgs == 3
\* largest number of arguments of an AllDifferent, and their largest value
AllDiffMaxN == 4
AllDiffMaxVal == 3
\* largest length of the lists of an Inverse
InverseMaxN == 3
\* Cumulative: most tasks, upper bound of the start and end variables,
\* largest demand of a task (the capacity goes one beyond)
CumMaxTasks == 2
CumHorizon == 2
CumMaxDemand == 1
\* Table: longest array, most rows of the table, largest value
TableMaxLen == 2
TableMaxRows == 2
TableMaxVal == 1
\* largest number of arguments of a Xor
XorMaxN == 5
\* decompose_in_tree: the deepest chain of calls Python allows
RecursionLimit == 8
\* decompose_in_tree: largest number of variables of a global constraint of the caller
DecompMaxN == 2
\* linearize_constraint: the integer variables take their values in 0..LinMaxVal
LinMaxVal == 2
\* the weights of a wsum of the caller lie in -LinMaxW..LinMaxW
LinMaxW == 2
\* the constant right-hand sides of the caller lie in -1..LinMaxRhs
LinMaxRhs == 2
LinMaxArity == 3
CmpMaxVal == 2

-----------------------------------------------------------------------------
(* Python values and call outcomes *)

\* the value of an unassigned variable; an integer no domain of the model holds
None == 0 - (CircuitMaxN + CircuitSlack + 1)

NoResult == [called |-> FALSE, exc |-> "", ret |-> FALSE]
Return(b) == [called |-> TRUE, exc |-> "", ret |-> b]
Raise(e) == [called |-> TRUE, exc |-> e, ret |-> FALSE]

\* no constructor call is under study
NoCall == [cls |-> "", a |-> <<>>, b |-> <<>>, c |-> <<>>, start_index |-> [kind |-> "int", v |-> 0]]

NoDecomp == [called |-> FALSE, constraining |-> 0, defining |-> 0, truth |-> FALSE]

Max2(a, b) == IF a >= b THEN a ELSE b
Min2(a, b) == IF a <= b THEN a ELSE b

\* the sequence f[0], ..., f[n-1] of a list held as a function over 0..n-1
ListOf(f) == [i \in 1..Cardinality(DOMAIN f) |-> f[i - 1]]

RECURSIVE SumSeq(_)
SumSeq(s) == IF s = <<>> THEN 0 ELSE Head(s) + SumSeq(Tail(s))

RECURSIVE MinSeq(_)
MinSeq(s) == IF Len(s) = 1 THEN s[1] ELSE Min2(Head(s), MinSeq(Tail(s)))

-----------------------------------------------------------------------------
(* Constructors: an argument is known by its kind *)

Kinds == {"intexpr", "boolexpr", "intconst", "boolconst"}

\* utils.is_boolexpr: a Boolean expression or a Python bool
is_boolexpr(k) == k \in {"boolexpr", "boolconst"}
\* utils.is_num: a Python number; bool is a subclass of int
is_num(k) == k \in {"intconst", "boolconst"}

\* what a constructor leaves: the object super().__init__ created, or the
\* exception raised before it
Built(nm, a) == [exc |-> "", name |-> nm, args |-> a]
Refused(e) == [exc |-> e, name |-> "", args |-> <<>>]

CircuitInit(flatargs) ==
    IF \E i \in 1..Len(flatargs) : is_boolexpr(flatargs[i]) THEN Refused("TypeError")
    ELSE IF Len(flatargs) < 2 THEN Refused("CPMpyException")
    ELSE Built("circuit", flatargs)

SubCircuitInit(flatargs) ==
    IF \E i \in 1..Len(flatargs) : is_boolexpr(flatargs[i]) THEN Refused("TypeError")
    ELSE IF Len(flatargs) < 2 THEN Refused("CPMpyException")
    ELSE Built("subcircuit", flatargs)

\* start_index is [kind, v]: isinstance(start_index, int) holds of an int and
\* of a bool, whose v is 0 or 1
IsInt(start_index) == start_index.kind \in {"int", "bool"}

\* SubCircuitWithStartInit with the range of start_index checked up to len(flatargs)
SubCircuitWithStartInitOffByOne(flatargs, start_index) ==
    IF \E i \in 1..Len(flatargs) : is_boolexpr(flatargs[i]) THEN Refused("TypeError")
    ELSE IF ~IsInt(start_index) THEN Refused("TypeError")
    ELSE IF ~((start_index.v >= 0) /\ (start_index.v <= Len(flatargs))) THEN Refused("ValueError")
    ELSE IF Len(flatargs) < 2 THEN Refused("CPMpyException")
    ELSE Built("subcircuitwithstart", [flatargs |-> flatargs, start_index |-> start_index.v])

SubCircuitWithStartInit(flatargs, start_index) ==
    IF \E i \in 1..Len(flatargs) : is_boolexpr(flatargs[i]) THEN Refused("TypeError")
    ELSE IF ~IsInt(start_index) THEN Refused("TypeError")
    ELSE IF ~((start_index.v >= 0) /\ (start_index.v < Len(flatargs))) THEN Refused("ValueError")
    ELSE IF Len(flatargs) < 2 THEN Refused("CPMpyException")
    ELSE Built("subcircuitwithstart", [flatargs |-> flatargs, start_index |-> start_index.v])

InverseInit(fwd, rev) ==
    LET flatargs == fwd \o rev
    IN  IF \E i \in 1..Len(flatargs) : is_boolexpr(flatargs[i]) THEN Refused("TypeError")
        ELSE IF Len(fwd) # Len(rev) THEN Refused("AssertionError")
        ELSE Built("inverse", <<fwd, rev>>)

IfThenElseInit(condition, if_true, if_false) ==
    IF ~is_boolexpr(condition) \/ ~is_boolexpr(if_true) \/ ~is_boolexpr(if_false)
    THEN Refused("TypeError")
    ELSE Built("ite", <<condition, if_true, if_false>>)

\* the caller's list after Xor.__init__: the swap is an assignment to its items
XorArgList(arg_list) ==
    IF (\A i \in 1..Len(arg_list) : is_boolexpr(arg_list[i]))
       /\ Len(arg_list) = 2 /\ is_num(arg_list[2])
    THEN <<arg_list[2], arg_list[1]>>
    ELSE arg_list

\* an Xor.__init__ that stores the arguments in the order of the caller
XorInitUnswapped(arg_list) ==
    IF ~(\A i \in 1..Len(arg_list) : is_boolexpr(arg_list[i])) THEN Refused("TypeError")
    ELSE Built("xor", arg_list)

\* Xor.__init__ over a list without nested lists: flatlist(arg_list) is arg_list
XorInit(arg_list) ==
    LET flatargs == arg_list
        swapped == <<arg_list[2], arg_list[1]>>
    IN  IF ~(\A i \in 1..Len(flatargs) : is_boolexpr(flatargs[i])) THEN Refused("TypeError")
        ELSE IF Len(arg_list) = 2 /\ is_num(arg_list[2]) THEN Built("xor", swapped)
        ELSE Built("xor", flatargs)

GlobalCardinalityCountInit(vars_, vals, occ) ==
    LET flatargs == vars_ \o vals \o occ
    IN  IF \E i \in 1..Len(flatargs) : is_boolexpr(flatargs[i]) THEN Refused("TypeError")
        ELSE Built("gcc", <<vars_, vals, occ>>)

-----------------------------------------------------------------------------
(* value() of the constraints that occur inside decompositions *)

\* AllDifferent.value over the list vals
AllDifferentValue(vals) ==
    Cardinality({vals[i] : i \in DOMAIN vals}) = Cardinality(DOMAIN vals)

\* the argument of the AllDifferent check of SubCircuit.value: the loop
\* variable s of the search for start_index, one integer, as flatlist gives it
SubCircuitAllDiffArg(succ, start_index) == [j \in 0..0 |-> succ[start_index]]

\* the loop "Collect subcircuit" of SubCircuit.value, at its iteration i
RECURSIVE SubCircuitCollect(_, _, _, _, _)
SubCircuitCollect(succ, start_index, idx, visited, i) ==
    LET n == Cardinality(DOMAIN succ)
    IN  IF i = n THEN [ok |-> TRUE, visited |-> visited]
        ELSE IF idx = start_index THEN [ok |-> TRUE, visited |-> visited]
        ELSE IF idx \in visited THEN [ok |-> FALSE, visited |-> visited]
        ELSE IF ~(0 <= idx /\ idx < n) THEN [ok |-> FALSE, visited |-> visited]
        ELSE SubCircuitCollect(succ, start_index, succ[idx], visited \cup {idx}, i + 1)

\* SubCircuitValue with empty subcircuits not allowed
SubCircuitValueNoEmpty(succ) ==
    LET n == Cardinality(DOMAIN succ)
        nonloops == {i \in DOMAIN succ : i # succ[i]}
        start_index == CHOOSE i \in nonloops : \A j \in nonloops : i <= j
        c == SubCircuitCollect(succ, start_index, succ[start_index], {start_index}, 0)
    IN  IF nonloops = {} THEN Return(FALSE)
        ELSE IF ~AllDifferentValue(SubCircuitAllDiffArg(succ, start_index)) THEN Return(FALSE)
        ELSE IF ~c.ok THEN Return(FALSE)
        ELSE IF \E i \in 0..n - 1 : ~((i \in c.visited) \/ (succ[i] = i)) THEN Return(FALSE)
        ELSE Return(succ[start_index] # start_index)

\* SubCircuitValue without the final loop "Check subcircuit"
SubCircuitValueUnchecked(succ) ==
    LET nonloops == {i \in DOMAIN succ : i # succ[i]}
        start_index == CHOOSE i \in nonloops : \A j \in nonloops : i <= j
        c == SubCircuitCollect(succ, start_index, succ[start_index], {start_index}, 0)
    IN  IF nonloops = {} THEN Return(TRUE)
        ELSE IF ~AllDifferentValue(SubCircuitAllDiffArg(succ, start_index)) THEN Return(FALSE)
        ELSE IF ~c.ok THEN Return(FALSE)
        ELSE Return(succ[start_index] # start_index)

SubCircuitValue(succ) ==
    LET n == Cardinality(DOMAIN succ)
        nonloops == {i \in DOMAIN succ : i # succ[i]}
        start_index == CHOOSE i \in nonloops : \A j \in nonloops : i <= j
        c == SubCircuitCollect(succ, start_index, succ[start_index], {start_index}, 0)
    IN  IF nonloops = {} THEN Return(TRUE)
        ELSE IF ~AllDifferentValue(SubCircuitAllDiffArg(succ, start_index)) THEN Return(FALSE)
        ELSE IF ~c.ok THEN Return(FALSE)
        ELSE IF \E i \in 0..n - 1 : ~((i \in c.visited) \/ (succ[i] = i)) THEN Return(FALSE)
        ELSE Return(succ[start_index] # start_index)

-----------------------------------------------------------------------------
(* Expression trees (cpmpy/expressions/core.py) and their evaluation *)

Node(o, a, nm, k) == [op |-> o, args |-> a, name |-> nm, n |-> k]

Const(k) == Node("const", <<>>, "", k)
Var(nm, i) == Node("var", <<>>, nm, i)
List(a) == Node("list", a, "", 0)
Cmp(o, l, r) == Node(o, <<l, r>>, "", 0)
Op(o, a) == Node(o, a, "", 0)
\* cpm_array(arr)[idx] with an expression as index
Element(arr, idx) == Node("element", <<List(arr), idx>>, "", 0)

\* the variables nm[0], ..., nm[n-1] as a list
VarArray(nm, n) == [i \in 1..n |-> Var(nm, i - 1)]

Comparisons == {"==", "!=", "<", "<=", ">", ">="}

\* eval_comparison
EvalComparison(o, l, r) ==
    CASE o = "==" -> l = r
      [] o = "!=" -> l # r
      [] o = "<"  -> l < r
      [] o = "<=" -> l <= r
      [] o = ">"  -> l > r
      [] o = ">=" -> l >= r

\* outcomes of an evaluation under a partial assignment: a value, not yet
\* known (an unbound variable is needed), or undefined (a partial function)
Val(x) == [known |-> TRUE, def |-> TRUE, v |-> x]
Unknown == [known |-> FALSE, def |-> TRUE, v |-> 0]
Undef == [known |-> TRUE, def |-> FALSE, v |-> 0]
BoolVal(b) == Val(IF b THEN 1 ELSE 0)

IsFalse(r) == r.known /\ (~r.def \/ r.v = 0)
IsTrue(r) == r.known /\ r.def /\ r.v # 0

\* a numeric operator over evaluated arguments: undefined if one of them is
NumOp(rs, x) ==
    IF \E i \in 1..Len(rs) : rs[i].known /\ ~rs[i].def THEN Undef
    ELSE IF \E i \in 1..Len(rs) : ~rs[i].known THEN Unknown
    ELSE Val(x)

\* a Boolean operator over evaluated arguments: an undefined argument makes
\* it false (argval turns IncompleteFunctionError into False at a Boolean)
BoolOp(rs, b) ==
    IF \E i \in 1..Len(rs) : rs[i].known /\ ~rs[i].def THEN BoolVal(FALSE)
    ELSE IF \E i \in 1..Len(rs) : ~rs[i].known THEN Unknown
    ELSE BoolVal(b)

RECURSIVE Eval(_, _), EvalArgs(_, _)

\* the values of a list of evaluated arguments
RECURSIVE Values(_)
Values(rs) == IF rs = <<>> THEN <<>> ELSE <<Head(rs).v>> \o Values(Tail(rs))

Eval(e, env) ==
    LET rs == EvalArgs(e.args, env)
        vs == Values(rs)
    IN
    CASE e.op = "const" -> Val(e.n)
      [] e.op = "var" ->
            IF <<e.name, e.n>> \in DOMAIN env THEN Val(env[<<e.name, e.n>>]) ELSE Unknown
      [] e.op = "element" ->
            LET arr == e.args[1].args
                i == Eval(e.args[2], env)
            IN  IF ~i.known THEN Unknown
                ELSE IF ~i.def THEN Undef
                ELSE IF 0 <= i.v /\ i.v < Len(arr) THEN Eval(arr[i.v + 1], env)
                ELSE Undef
      [] e.op = "sum" -> NumOp(rs, SumSeq(vs))
      [] e.op = "mul" -> NumOp(rs, vs[1] * vs[2])
      [] e.op = "min" -> NumOp(rs, MinSeq(vs))
      [] e.op \in Comparisons -> BoolOp(rs, EvalComparison(e.op, vs[1], vs[2]))
      [] e.op = "not" -> BoolOp(rs, vs[1] = 0)
      [] e.op = "and" ->
            IF \E i \in 1..Len(rs) : IsFalse(rs[i]) THEN BoolVal(FALSE)
            ELSE BoolOp(rs, TRUE)
      [] e.op = "or" ->
            IF \E i \in 1..Len(rs) : IsTrue(rs[i]) THEN BoolVal(TRUE)
            ELSE BoolOp(rs, FALSE)
      [] e.op = "->" ->
            IF IsFalse(rs[1]) \/ IsTrue(rs[2]) THEN BoolVal(TRUE)
            ELSE BoolOp(rs, FALSE)
      [] e.op = "alldifferent" -> BoolOp(rs, AllDifferentValue(vs))
      [] e.op = "subcircuit" ->
            BoolOp(rs, SubCircuitValue([i \in 0..Len(vs) - 1 |-> vs[i + 1]]).ret)

EvalArgs(es, env) ==
    IF es = <<>> THEN <<>> ELSE <<Eval(Head(es), env)>> \o EvalArgs(Tail(es), env)

\* each constraint of cons with its truth under env
RECURSIVE Judge(_, _)
Judge(cons, env) ==
    IF cons = <<>> THEN <<>>
    ELSE <<[c |-> Head(cons), r |-> Eval(Head(cons), env)]>> \o Judge(Tail(cons), env)

RECURSIVE Constraints(_)
Constraints(js) == IF js = <<>> THEN <<>> ELSE <<Head(js).c>> \o Constraints(Tail(js))

\* an auxiliary variable of a decomposition: intvar(lb, ub) or boolvar()
Aux(nm, i, lb, ub) == [id |-> <<nm, i>>, lb |-> lb, ub |-> ub]
AuxArray(nm, n, lb, ub) == [i \in 1..n |-> Aux(nm, i - 1, lb, ub)]

\* a solver's answer: is there a value for every auxiliary variable of todo,
\* within its bounds, under which all the constraints of cons are true?
\* A constraint already true under the values chosen so far is not
\* evaluated again; one already false ends the branch.
RECURSIVE Satisfiable(_, _, _)
Satisfiable(cons, env, todo) ==
    LET rs == Judge(cons, env)
        open == SelectSeq(rs, LAMBDA p : ~p.r.known)
    IN  IF \E i \in 1..Len(rs) : IsFalse(rs[i].r) THEN FALSE
        ELSE IF todo = <<>> THEN open = <<>>
        ELSE LET x == Head(todo)
             IN  \E v \in x.lb..x.ub :
                    Satisfiable(Constraints(open), env @@ (x.id :> v), Tail(todo))

\* the assignment of the argument variables nm[0..n-1]
Assign(nm, vals) == [id \in {<<nm, i>> : i \in DOMAIN vals} |-> vals[id[2]]]

Decomposed(d, env) ==
    [called |-> TRUE,
     constraining |-> Len(d.constraining),
     defining |-> Len(d.defining),
     truth |-> Satisfiable(d.constraining \o d.defining, env, d.aux)]

-----------------------------------------------------------------------------
(* Circuit *)

\* CircuitDecompose with the symmetry breaking on the first order instead of the last
CircuitDecomposeFirstZero(n) ==
    LET succ == VarArray("succ", n)
        order == VarArray("order", n)
    IN  [constraining |->
            << Op("alldifferent", succ),
               Op("alldifferent", order),
               Cmp("==", order[0 + 1], Const(0)) >>,
         defining |->
            << Cmp("==", order[0 + 1], succ[0 + 1]) >>
            \o [i \in 1..n - 1 |->
                  Cmp("==", order[i + 1], Element(succ, order[(i - 1) + 1]))],
         aux |-> AuxArray("order", n, 0, n - 1)]

CircuitDecompose(n) ==
    LET succ == VarArray("succ", n)
        order == VarArray("order", n)
    IN  [constraining |->
            << Op("alldifferent", succ),
               Op("alldifferent", order),
               Cmp("==", order[(n - 1) + 1], Const(0)) >>,
         defining |->
            << Cmp("==", order[0 + 1], succ[0 + 1]) >>
            \o [i \in 1..n - 1 |->
                  Cmp("==", order[i + 1], Element(succ, order[(i - 1) + 1]))],
         aux |-> AuxArray("order", n, 0, n - 1)]

\* CircuitWalk returning pathlen == len(self.args) without idx == 0
RECURSIVE CircuitWalkNoReturn(_, _, _, _)
CircuitWalkNoReturn(arr, idx, visited, pathlen) ==
    LET n == Cardinality(DOMAIN arr)
    IN  IF idx \in visited THEN Return(pathlen = n)
        ELSE IF idx = None THEN Return(FALSE)
        ELSE IF ~(0 <= idx /\ idx < n) THEN Return(pathlen = n)
        ELSE CircuitWalkNoReturn(arr, arr[idx], visited \cup {idx}, pathlen + 1)

\* the while loop of Circuit.value; a comparison of None with an integer
\* raises TypeError
RECURSIVE CircuitWalk(_, _, _, _)
CircuitWalk(arr, idx, visited, pathlen) ==
    LET n == Cardinality(DOMAIN arr)
    IN  IF idx \in visited THEN Return(pathlen = n /\ idx = 0)
        ELSE IF idx = None THEN Return(FALSE)
        ELSE IF ~(0 <= idx /\ idx < n) THEN Return(pathlen = n /\ idx = 0)
        ELSE CircuitWalk(arr, arr[idx], visited \cup {idx}, pathlen + 1)

CircuitValue(arr) == CircuitWalk(arr, 0, {}, 0)

CircuitVals(n) == ((0 - CircuitSlack)..(n - 1 + CircuitSlack)) \cup {None}

InitCircuit ==
    /\ pc = "built"
    /\ name = "circuit"
    /\ \E n \in 2..CircuitMaxN : args \in [0..n - 1 -> CircuitVals(n)]
    /\ call = NoCall
    /\ raised = ""
    /\ value = NoResult
    /\ decomp = NoDecomp

CircuitValueCall ==
    /\ pc = "built"
    /\ name = "circuit"
    /\ value' = CircuitValue(args)
    /\ pc' = "valued"
    /\ UNCHANGED <<call, name, args, raised, decomp>>

CircuitDecomposeCall ==
    /\ pc = "valued"
    /\ name = "circuit"
    /\ decomp' = Decomposed(CircuitDecompose(Cardinality(DOMAIN args)),
                            Assign("succ", args))
    /\ pc' = "done"
    /\ UNCHANGED <<call, name, args, raised, value>>

NextCircuit == CircuitValueCall \/ CircuitDecomposeCall

SpecCircuit == InitCircuit /\ [][NextCircuit]_vars

Concrete(arr) == \A i \in DOMAIN arr : arr[i] # None

\* the node reached from 0 after k steps along arr, -1 once the walk has left 0..n-1
RECURSIVE After(_, _)
After(arr, k) ==
    IF k = 0 THEN 0
    ELSE LET p == After(arr, k - 1)
         IN  IF p \in DOMAIN arr THEN arr[p] ELSE 0 - 1

\* arr is a permutation of 0..n-1 that is one cycle of length n
SingleCycle(arr) ==
    LET n == Cardinality(DOMAIN arr)
    IN  /\ \A i \in DOMAIN arr : arr[i] \in DOMAIN arr
        /\ \A i, j \in DOMAIN arr : i # j => arr[i] # arr[j]
        /\ {After(arr, k) : k \in 1..n} = DOMAIN arr
        /\ After(arr, n) = 0

\* C1: for every concrete assignment of the successors of a Circuit, values
\* outside 0..n-1 included, value() is true exactly when some order within
\* [0,n-1]^n satisfies the 3 constraining and the n defining constraints
\* returned by decompose().
C1_CircuitEquivalence ==
    (pc = "done" /\ Concrete(args)) =>
        /\ value.exc = ""
        /\ decomp.constraining = 3
        /\ decomp.defining = Cardinality(DOMAIN args)
        /\ value.ret = decomp.truth

C1_Witness ==
    /\ pc = "done"
    /\ Cardinality(DOMAIN args) = CircuitMaxN
    /\ Concrete(args)
    /\ value.ret
    /\ decomp.truth

\* C2: value() of a Circuit never raises and is true exactly when the
\* successors are a permutation of 0..n-1 that is one cycle of length n;
\* with an out-of-range or None entry it is false; it is true on [1,2,0]
\* and false on [0,1,2].
C2_CircuitValue ==
    (pc \in {"valued", "done"}) =>
        /\ value.called /\ value.exc = ""
        /\ value.ret = SingleCycle(args)
        /\ (\E i \in DOMAIN args : args[i] \notin DOMAIN args) => ~value.ret
        /\ args = (0 :> 1 @@ 1 :> 2 @@ 2 :> 0) => value.ret
        /\ args = (0 :> 0 @@ 1 :> 1 @@ 2 :> 2) => ~value.ret

C2_Witness ==
    /\ pc = "valued"
    /\ args = (0 :> 1 @@ 1 :> 2 @@ 2 :> 0)
    /\ value.ret

-----------------------------------------------------------------------------
(* SubCircuit *)

SubCircuitDecompose(n) ==
    LET succ == VarArray("succ", n)
        start_node == Var("start_node", 0)
        end_node == Var("end_node", 0)
        index_within_subcircuit == VarArray("index_within_subcircuit", n)
        is_part_of_circuit == VarArray("is_part_of_circuit", n)
        empty == Var("empty", 0)
        subcircuit_visits == VarArray("subcircuit_visits", n)
    IN  [constraining |->
            << Op("alldifferent", succ) >>
            \o [i \in 1..n |->
                  Op("->", << is_part_of_circuit[i], Cmp("<", succ[i], Const(n)) >>)]
            \o [i \in 1..n |->
                  Op("->", << Op("and", << is_part_of_circuit[i],
                                            Cmp("!=", end_node, Const(i - 1)) >>),
                              Cmp("==", Element(index_within_subcircuit, succ[i]),
                                        Op("sum", << index_within_subcircuit[i], Const(1) >>)) >>)]
            \o [i \in 1..n |->
                  Cmp("==", is_part_of_circuit[i], Cmp("!=", succ[i], Const(i - 1)))],
         defining |->
            << Cmp("==", empty, Op("and", [i \in 1..n |-> Cmp("==", succ[i], Const(i - 1))])),
               Op("->", << empty,
                           Op("and", [i \in 1..n |->
                                        Cmp("==", index_within_subcircuit[i], Const(0))]) >>),
               Op("->", << empty, Cmp("==", start_node, Const(0)) >>),
               Cmp("==", Element(succ, end_node), start_node),
               Cmp("==", Element(index_within_subcircuit, start_node), Const(0)),
               Op("or", << empty,
                           Cmp("==", Element(is_part_of_circuit, start_node), Const(1)) >>) >>
            \o [i \in 1..n |->
                  Cmp("==", is_part_of_circuit[i],
                      Op("and", << Op("not", << empty >>),
                                   Cmp("!=", Op("sum", << Element(index_within_subcircuit, end_node),
                                                          Const(1) >>),
                                             index_within_subcircuit[i]) >>))]
            \o << Cmp("==", subcircuit_visits[0 + 1], start_node) >>
            \o [i \in 1..n - 1 |->
                  Cmp("==", subcircuit_visits[i + 1],
                            Element(succ, subcircuit_visits[(i - 1) + 1]))]
            \o << Cmp("==", start_node, Op("min", subcircuit_visits)) >>,
         aux |->
            << Aux("empty", 0, 0, 1) >>
            \o AuxArray("is_part_of_circuit", n, 0, 1)
            \o << Aux("start_node", 0, 0, n - 1) >>
            \o AuxArray("subcircuit_visits", n, 0, n - 1)
            \o << Aux("end_node", 0, 0, n - 1) >>
            \o AuxArray("index_within_subcircuit", n, 0, n - 1)]

InitSubCircuit ==
    /\ pc = "built"
    /\ name = "subcircuit"
    /\ \E n \in 2..SubCircuitMaxN : args \in [0..n - 1 -> 0..n - 1]
    /\ call = NoCall
    /\ raised = ""
    /\ value = NoResult
    /\ decomp = NoDecomp

SubCircuitValueCall ==
    /\ pc = "built"
    /\ name = "subcircuit"
    /\ value' = SubCircuitValue(args)
    /\ pc' = "valued"
    /\ UNCHANGED <<call, name, args, raised, decomp>>

SubCircuitDecomposeCall ==
    /\ pc = "valued"
    /\ name = "subcircuit"
    /\ decomp' = Decomposed(SubCircuitDecompose(Cardinality(DOMAIN args)),
                            Assign("succ", args))
    /\ pc' = "done"
    /\ UNCHANGED <<call, name, args, raised, value>>

NextSubCircuit == SubCircuitValueCall \/ SubCircuitDecomposeCall

SpecSubCircuit == InitSubCircuit /\ [][NextSubCircuit]_vars

\* the nodes that do not loop on themselves
NonLoops(succ) == {i \in DOMAIN succ : succ[i] # i}

\* the node reached from node a after k steps along succ (succ within 0..n-1)
RECURSIVE Steps(_, _, _)
Steps(succ, a, k) == IF k = 0 THEN a ELSE succ[Steps(succ, a, k - 1)]

\* the nodes that do not loop on themselves form one single cycle, or there are none
OneSubCycle(succ) ==
    LET n == Cardinality(DOMAIN succ)
    IN  /\ \A i \in DOMAIN succ : succ[i] \in DOMAIN succ
        /\ \A i, j \in NonLoops(succ) :
              \E k \in 1..n : Steps(succ, i, k) = j

\* C3: for n in 2..4 and successors within 0..n-1, value() of a SubCircuit is
\* true exactly when its 3n+1 constraining and 2n+7 defining constraints are
\* satisfiable by auxiliaries within their bounds, and both exactly when the
\* nodes that do not self-loop form one single cycle or there are none.
C3_SubCircuitEquivalence ==
    (pc = "done") =>
        LET n == Cardinality(DOMAIN args)
        IN  /\ value.exc = ""
            /\ decomp.constraining = 3 * n + 1
            /\ decomp.defining = 2 * n + 7
            /\ value.ret = decomp.truth
            /\ value.ret = OneSubCycle(args)

C3_Witness ==
    /\ pc = "done"
    /\ Cardinality(DOMAIN args) = SubCircuitMaxN
    /\ Cardinality(NonLoops(args)) = SubCircuitMaxN - 1
    /\ value.ret
    /\ decomp.truth

-----------------------------------------------------------------------------
(* SubCircuitWithStart *)

SubCircuitWithStartDecompose(n, start_index) ==
    LET succ == VarArray("succ", n)
    IN  [constraining |->
            << Op("subcircuit", succ),
               Cmp("!=", succ[start_index + 1], Const(start_index)) >>,
         defining |-> <<>>,
         aux |-> <<>>]

\* SubCircuitWithStartValue without the check that start_index is part of the subcircuit
SubCircuitWithStartValueAnyStart(succ, start_index) ==
    LET sub == SubCircuitInit([i \in 1..Cardinality(DOMAIN succ) |-> "intconst"])
    IN  IF sub.exc # "" THEN Raise(sub.exc)
        ELSE Return(SubCircuitValue(succ).ret)

\* SubCircuit(succ) is constructed over the values of the successors
SubCircuitWithStartValue(succ, start_index) ==
    LET sub == SubCircuitInit([i \in 1..Cardinality(DOMAIN succ) |-> "intconst"])
    IN  IF sub.exc # "" THEN Raise(sub.exc)
        ELSE Return(SubCircuitValue(succ).ret /\ (succ[start_index] # start_index))

InitWithStart ==
    /\ pc = "built"
    /\ name = "subcircuitwithstart"
    /\ \E n \in 2..WithStartMaxN :
          args \in [succ : [0..n - 1 -> (0 - WithStartSlack)..(n - 1 + WithStartSlack)],
                    start_index : 0..n - 1]
    /\ call = NoCall
    /\ raised = ""
    /\ value = NoResult
    /\ decomp = NoDecomp

SubCircuitWithStartValueCall ==
    /\ pc = "built"
    /\ name = "subcircuitwithstart"
    /\ value' = SubCircuitWithStartValue(args.succ, args.start_index)
    /\ pc' = "valued"
    /\ UNCHANGED <<call, name, args, raised, decomp>>

SubCircuitWithStartDecomposeCall ==
    /\ pc = "valued"
    /\ name = "subcircuitwithstart"
    /\ decomp' = Decomposed(SubCircuitWithStartDecompose(Cardinality(DOMAIN args.succ),
                                                         args.start_index),
                            Assign("succ", args.succ))
    /\ pc' = "done"
    /\ UNCHANGED <<call, name, args, raised, value>>

NextWithStart == SubCircuitWithStartValueCall \/ SubCircuitWithStartDecomposeCall

SpecWithStart == InitWithStart /\ [][NextWithStart]_vars

AllSelfLoop(succ) == \A i \in DOMAIN succ : succ[i] = i

\* C4: value() of a SubCircuitWithStart is SubCircuit.value() on the same
\* successors and succ[start_index] != start_index, which is the truth of
\* its decomposition [SubCircuit(args), succ[start_index] != start_index]
\* with no defining constraint; where every successor self-loops,
\* SubCircuit.value() is true and SubCircuitWithStart.value() false for
\* every start_index.
C4_WithStartValue ==
    (pc = "done") =>
        /\ value.exc = ""
        /\ value.ret = (SubCircuitValue(args.succ).ret
                        /\ args.succ[args.start_index] # args.start_index)
        /\ decomp.constraining = 2
        /\ decomp.defining = 0
        /\ value.ret = decomp.truth
        /\ value.ret = (OneSubCycle(args.succ) /\ args.start_index \in NonLoops(args.succ))
        /\ AllSelfLoop(args.succ) => (SubCircuitValue(args.succ).ret /\ ~value.ret)

C4_Witness ==
    /\ pc = "done"
    /\ Cardinality(DOMAIN args.succ) = 4
    /\ AllSelfLoop(args.succ)
    /\ ~value.ret
    /\ ~decomp.truth

-----------------------------------------------------------------------------
(* AllDifferent *)

\* utils.all_pairs: the pairs of positions (i, j) with i < j, by i then by j
RECURSIVE all_pairs_from(_, _, _)
all_pairs_from(n, i, j) ==
    IF i >= n THEN <<>>
    ELSE IF j >= n THEN all_pairs_from(n, i + 1, i + 2)
    ELSE << <<i, j>> >> \o all_pairs_from(n, i, j + 1)

all_pairs(n) == all_pairs_from(n, 0, 1)

\* AllDifferentDecompose over the neighbouring pairs only
AllDifferentDecomposeNeighbours(n) ==
    LET xs == VarArray("x", n)
    IN  [constraining |-> [k \in 1..(IF n = 0 THEN 0 ELSE n - 1) |-> Cmp("!=", xs[k], xs[k + 1])],
         defining |-> <<>>,
         aux |-> <<>>]

AllDifferentDecompose(n) ==
    LET xs == VarArray("x", n)
        pairs == all_pairs(n)
    IN  [constraining |->
            [k \in 1..Len(pairs) |-> Cmp("!=", xs[pairs[k][1] + 1], xs[pairs[k][2] + 1])],
         defining |-> <<>>,
         aux |-> <<>>]

InitAllDifferent ==
    /\ pc = "built"
    /\ name = "alldifferent"
    /\ \E n \in 0..AllDiffMaxN : args \in [0..n - 1 -> 0..AllDiffMaxVal]
    /\ call = NoCall
    /\ raised = ""
    /\ value = NoResult
    /\ decomp = NoDecomp

AllDifferentValueCall ==
    /\ pc = "built"
    /\ name = "alldifferent"
    /\ value' = Return(AllDifferentValue(args))
    /\ pc' = "valued"
    /\ UNCHANGED <<call, name, args, raised, decomp>>

AllDifferentDecomposeCall ==
    /\ pc = "valued"
    /\ name = "alldifferent"
    /\ decomp' = Decomposed(AllDifferentDecompose(Cardinality(DOMAIN args)),
                            Assign("x", args))
    /\ pc' = "done"
    /\ UNCHANGED <<call, name, args, raised, value>>

NextAllDifferent == AllDifferentValueCall \/ AllDifferentDecomposeCall

SpecAllDifferent == InitAllDifferent /\ [][NextAllDifferent]_vars

\* C5: AllDifferent over n arguments decomposes into n*(n-1)/2 constraints,
\* exactly one != for each unordered pair of positions, and no defining
\* constraint; value() equals the conjunction of these inequalities. On
\* x=1, y=1, z=2 value() is false and there are 3 constraints.
C5_AllDifferent ==
    (pc = "done") =>
        LET n == Cardinality(DOMAIN args)
            cons == AllDifferentDecompose(n).constraining
        IN  /\ 2 * decomp.constraining = n * (n - 1)
            /\ decomp.defining = 0
            /\ \A i, j \in 0..n - 1 :
                  (i < j) =>
                    Cardinality({k \in 1..Len(cons) :
                        \/ cons[k] = Cmp("!=", Var("x", i), Var("x", j))
                        \/ cons[k] = Cmp("!=", Var("x", j), Var("x", i))}) = 1
            /\ value.ret = decomp.truth
            /\ value.ret = (\A i, j \in 0..n - 1 : i # j => args[i] # args[j])
            /\ args = (0 :> 1 @@ 1 :> 1 @@ 2 :> 2) => (~value.ret /\ decomp.constraining = 3)

C5_Witness ==
    /\ pc = "done"
    /\ args = (0 :> 1 @@ 1 :> 1 @@ 2 :> 2)
    /\ ~value.ret
    /\ decomp.constraining = 3

-----------------------------------------------------------------------------
(* Inverse *)

\* list[x] of Python: a negative x counts from the end of the list, and an x
\* outside -len..len-1 raises IndexError
GetItem(list, x) ==
    LET n == Cardinality(DOMAIN list)
    IN  IF 0 <= x /\ x < n THEN [exc |-> "", v |-> list[x]]
        ELSE IF 0 - n <= x /\ x < 0 THEN [exc |-> "", v |-> list[n + x]]
        ELSE [exc |-> "IndexError", v |-> 0]

\* all(rev[x] == i for i, x in enumerate(fwd)) from position i on, inside
\* try ... except IndexError: return False
RECURSIVE InverseAll(_, _, _)
InverseAll(fwd, rev, i) ==
    IF i = Cardinality(DOMAIN fwd) THEN Return(TRUE)
    ELSE LET item == GetItem(rev, fwd[i])
         IN  IF item.exc = "IndexError" THEN Return(FALSE)
             ELSE IF ~(item.v = i) THEN Return(FALSE)
             ELSE InverseAll(fwd, rev, i + 1)

InverseValue(fwd, rev) == InverseAll(fwd, rev, 0)

InverseDecompose(n) ==
    LET fwd == VarArray("fwd", n)
        rev == VarArray("rev", n)
    IN  [constraining |->
            << Op("and", [i \in 1..n |-> Cmp("==", Element(rev, fwd[i]), Const(i - 1))]) >>,
         defining |-> <<>>,
         aux |-> <<>>]

InitInverse ==
    /\ pc = "built"
    /\ name = "inverse"
    /\ \E n \in 1..InverseMaxN :
          args \in [fwd : [0..n - 1 -> (0 - n)..n], rev : [0..n - 1 -> 0..n - 1]]
    /\ call = NoCall
    /\ raised = ""
    /\ value = NoResult
    /\ decomp = NoDecomp

InverseValueCall ==
    /\ pc = "built"
    /\ name = "inverse"
    /\ value' = InverseValue(args.fwd, args.rev)
    /\ pc' = "valued"
    /\ UNCHANGED <<call, name, args, raised, decomp>>

InverseDecomposeCall ==
    /\ pc = "valued"
    /\ name = "inverse"
    /\ decomp' = Decomposed(InverseDecompose(Cardinality(DOMAIN args.fwd)),
                            Assign("fwd", args.fwd) @@ Assign("rev", args.rev))
    /\ pc' = "done"
    /\ UNCHANGED <<call, name, args, raised, value>>

NextInverse == InverseValueCall \/ InverseDecomposeCall

SpecInverse == InitInverse /\ [][NextInverse]_vars

\* C6: value() of an Inverse returns false, without raising, whenever some
\* fwd[i] lies outside 0..len(rev)-1, be it negative or >= len(rev), and so
\* agrees with the decomposition all(rev[fwd[i]] == i), in which a lookup
\* out of range is unsatisfied.
C6_InverseOutOfRange ==
    (pc = "done" /\ \E i \in DOMAIN args.fwd : args.fwd[i] \notin DOMAIN args.rev) =>
        /\ value.exc = ""
        /\ ~value.ret
        /\ value.ret = decomp.truth

-----------------------------------------------------------------------------
(* Cumulative *)

\* args holds the values of start, duration, end, demand (lists) and capacity,
\* and lb, ub: the smallest lower bound of the start variables and the
\* largest upper bound of the end variables
CumulativeDecompose(n, lb, ub) ==
    LET start == VarArray("start", n)
        duration == VarArray("duration", n)
        end == VarArray("end", n)
        demand == VarArray("demand", n)
        capacity == Var("capacity", 0)
        demand_at(t) ==
            Op("sum", << Const(0) >>
                      \o [job \in 1..n |->
                            Op("mul", << demand[job],
                                         Op("and", << Cmp("<=", start[job], Const(t)),
                                                      Cmp(">", end[job], Const(t)) >>) >>)])
    IN  [constraining |->
            [t \in 1..n |-> Cmp("==", Op("sum", << start[t], duration[t] >>), end[t])]
            \o [k \in 1..(ub + 1 - lb) |-> Cmp("<=", demand_at(lb + k - 1), capacity)],
         defining |-> <<>>,
         aux |-> <<>>]

\* CumulativeValue with a task counted from the time point after its start
CumulativeValueAfterStart(a) ==
    LET jobs == DOMAIN a.start
        lb == CHOOSE x \in {a.start[j] : j \in jobs} : \A j \in jobs : x <= a.start[j]
        ub == CHOOSE x \in {a.end[j] : j \in jobs} : \A j \in jobs : x >= a.end[j]
        load(t) == SumSeq([k \in 1..Cardinality(jobs) |->
                      a.demand[k - 1]
                      * (IF a.start[k - 1] < t /\ t < a.end[k - 1] THEN 1 ELSE 0)])
    IN  IF ~(\A j \in jobs : a.start[j] + a.duration[j] = a.end[j]) THEN Return(FALSE)
        ELSE IF \E t \in lb..ub : a.capacity < load(t) THEN Return(FALSE)
        ELSE Return(TRUE)

CumulativeValue(a) ==
    LET jobs == DOMAIN a.start
        lb == CHOOSE x \in {a.start[j] : j \in jobs} : \A j \in jobs : x <= a.start[j]
        ub == CHOOSE x \in {a.end[j] : j \in jobs} : \A j \in jobs : x >= a.end[j]
        load(t) == SumSeq([k \in 1..Cardinality(jobs) |->
                      a.demand[k - 1]
                      * (IF a.start[k - 1] <= t /\ t < a.end[k - 1] THEN 1 ELSE 0)])
    IN  IF ~(\A j \in jobs : a.start[j] + a.duration[j] = a.end[j]) THEN Return(FALSE)
        ELSE IF \E t \in lb..ub : a.capacity < load(t) THEN Return(FALSE)
        ELSE Return(TRUE)

\* the tasks of the model: start <= end within 0..CumHorizon and a demand
\* that is -1 or within 1..CumMaxDemand
CumTasks ==
    {[start |-> s, end |-> e, demand |-> q] :
        s \in 0..CumHorizon, e \in 0..CumHorizon, q \in {0 - 1} \cup 1..CumMaxDemand}

\* tasks are listed in a fixed order: the constraint does not depend on it
CumKey(t) == (t.start * (CumHorizon + 1) + t.end) * (CumMaxDemand + 2) + t.demand + 1

\* the duration of a task is end - start, but for the first task when late = 1
InitCumulative ==
    /\ pc = "built"
    /\ name = "cumulative"
    /\ \E n \in 1..CumMaxTasks :
       \E tasks \in [0..n - 1 -> {t \in CumTasks : t.start <= t.end}] :
       \E cap \in (0 - 1)..CumMaxDemand + 1 :
       \E late \in 0..1 :
          /\ \A j \in 1..n - 1 : CumKey(tasks[j - 1]) <= CumKey(tasks[j])
          /\ args = [start |-> [j \in 0..n - 1 |-> tasks[j].start],
                     duration |-> [j \in 0..n - 1 |->
                                     tasks[j].end - tasks[j].start + (IF j = 0 THEN late ELSE 0)],
                     end |-> [j \in 0..n - 1 |-> tasks[j].end],
                     demand |-> [j \in 0..n - 1 |-> tasks[j].demand],
                     capacity |-> cap,
                     lb |-> 0,
                     ub |-> CumHorizon]
    /\ call = NoCall
    /\ raised = ""
    /\ value = NoResult
    /\ decomp = NoDecomp

CumulativeValueCall ==
    /\ pc = "built"
    /\ name = "cumulative"
    /\ value' = CumulativeValue(args)
    /\ pc' = "valued"
    /\ UNCHANGED <<call, name, args, raised, decomp>>

CumulativeDecomposeCall ==
    /\ pc = "valued"
    /\ name = "cumulative"
    /\ decomp' = Decomposed(CumulativeDecompose(Cardinality(DOMAIN args.start), args.lb, args.ub),
                            Assign("start", args.start) @@ Assign("duration", args.duration)
                            @@ Assign("end", args.end) @@ Assign("demand", args.demand)
                            @@ (<<"capacity", 0>> :> args.capacity))
    /\ pc' = "done"
    /\ UNCHANGED <<call, name, args, raised, value>>

NextCumulative == CumulativeValueCall \/ CumulativeDecomposeCall

SpecCumulative == InitCumulative /\ [][NextCumulative]_vars

\* the summed demand at time t of the tasks with start <= t < end
LoadAt(a, t) ==
    LET active == {j \in DOMAIN a.start : a.start[j] <= t /\ t < a.end[j]}
    IN  SumSeq([k \in 1..Cardinality(DOMAIN a.start) |->
                  IF (k - 1) \in active THEN a.demand[k - 1] ELSE 0])

\* C7: value() of a Cumulative is true exactly when all constraints of
\* decompose() hold: start[j]+duration[j]==end[j] for every task and, for
\* every t from the smallest start lower bound to the largest end upper
\* bound, a summed demand of the active tasks of at most capacity; scanning
\* min(start)..max(end) only does not change the verdict.
C7_CumulativeEquivalence ==
    (pc = "done") =>
        /\ value.exc = ""
        /\ decomp.constraining = Cardinality(DOMAIN args.start) + (args.ub - args.lb + 1)
        /\ decomp.defining = 0
        /\ value.ret = decomp.truth
        /\ value.ret =
              (/\ \A j \in DOMAIN args.start : args.start[j] + args.duration[j] = args.end[j]
               /\ \A t \in args.lb..args.ub : LoadAt(args, t) <= args.capacity)

\* two tasks that overlap within a range narrower than the variables' bounds
C7_Witness ==
    /\ pc = "done"
    /\ Cardinality(DOMAIN args.start) = 2
    /\ \E t \in args.lb..args.ub : \A j \in DOMAIN args.start : args.start[j] <= t /\ t < args.end[j]
    /\ \A j \in DOMAIN args.start : args.lb < args.start[j] /\ args.demand[j] > 0
    /\ value.ret
    /\ decomp.truth

-----------------------------------------------------------------------------
(* Table *)

\* args holds array, the values of the variables, table, the rows, and rows,
\* the Python type of each row of the table: "list" or "tuple"

\* any over the rows of all over zip(arr, row), which stops with the shorter
TableDecompose(n, tab) ==
    LET arr == VarArray("array", n)
    IN  [constraining |->
            << Op("or", [r \in 1..Len(tab) |->
                  Op("and", [c \in 1..Min2(n, Len(tab[r])) |->
                        Cmp("==", arr[c], Const(tab[r][c]))])]) >>,
         defining |-> <<>>,
         aux |-> <<>>]

\* Python's == of two sequences: a list and a tuple are never equal
SeqEq(ltype, l, rtype, r) == (ltype = rtype) /\ (l = r)

\* arrval in tab, arrval being the list argvals builds
TableValue(arrval, tab, rows) ==
    Return(\E r \in 1..Len(tab) : SeqEq(rows, tab[r], "list", arrval))

\* the rows of set S as a list
RECURSIVE RowList(_)
RowList(S) ==
    IF S = {} THEN <<>>
    ELSE LET row == CHOOSE x \in S : TRUE
         IN  <<row>> \o RowList(S \ {row})

\* tables of at most TableMaxRows distinct rows, listed in one order each
TableRows(n) == [1..n -> 0..TableMaxVal]
Tables(n) ==
    UNION {{RowList({rows[i] : i \in 1..k}) : rows \in [1..k -> TableRows(n)]} :
              k \in 0..TableMaxRows}

InitTable ==
    /\ pc = "built"
    /\ name = "table"
    /\ \E n \in 0..TableMaxLen :
          args \in [array : TableRows(n), table : Tables(n), rows : {"list", "tuple"}]
    /\ call = NoCall
    /\ raised = ""
    /\ value = NoResult
    /\ decomp = NoDecomp

TableValueCall ==
    /\ pc = "built"
    /\ name = "table"
    /\ value' = TableValue(args.array, args.table, args.rows)
    /\ pc' = "valued"
    /\ UNCHANGED <<call, name, args, raised, decomp>>

TableDecomposeCall ==
    /\ pc = "valued"
    /\ name = "table"
    /\ decomp' = Decomposed(TableDecompose(Len(args.array), args.table),
                            [id \in {<<"array", c - 1>> : c \in 1..Len(args.array)} |->
                                args.array[id[2] + 1]])
    /\ pc' = "done"
    /\ UNCHANGED <<call, name, args, raised, value>>

NextTable == TableValueCall \/ TableDecomposeCall

SpecTable == InitTable /\ [][NextTable]_vars

\* C8: value() of a Table, the assignment being one of the rows, equals the
\* truth of its decomposition, the disjunction over the rows of the
\* conjunction of the equalities array[c] == row[c], for every table of rows
\* of the array's length, the empty table included; there is no defining
\* constraint.
C8_TableEquivalence ==
    (pc = "done") =>
        /\ value.exc = ""
        /\ decomp.constraining = 1
        /\ decomp.defining = 0
        /\ value.ret = decomp.truth
        /\ value.ret = (\E r \in 1..Len(args.table) :
                          \A c \in 1..Len(args.array) : args.array[c] = args.table[r][c])
        /\ (args.table = <<>>) => ~value.ret

-----------------------------------------------------------------------------
(* Xor *)

\* XorDecompose with sum(pair) >= 1 for sum(pair) == 1
RECURSIVE XorDecomposeAtLeastOne(_)
XorDecomposeAtLeastOne(xs) ==
    LET dec == << Cmp(">=", Op("sum", SubSeq(xs, 1, Min2(2, Len(xs)))), Const(1)) >>
    IN  IF Len(xs) > 2 THEN XorDecomposeAtLeastOne(dec \o SubSeq(xs, 3, Len(xs)))
        ELSE [constraining |-> dec, defining |-> <<>>, aux |-> <<>>]

\* xs is self.args; Xor([decomp, self.args[2:]]) has the arguments
\* flatlist gives: the one constraint of decomp, then self.args[2:]
RECURSIVE XorDecompose(_)
XorDecompose(xs) ==
    LET dec == << Cmp("==", Op("sum", SubSeq(xs, 1, Min2(2, Len(xs)))), Const(1)) >>
    IN  IF Len(xs) > 2 THEN XorDecompose(dec \o SubSeq(xs, 3, Len(xs)))
        ELSE [constraining |-> dec, defining |-> <<>>, aux |-> <<>>]

XorValue(vals) == Return(SumSeq(ListOf(vals)) % 2 = 1)

InitXor ==
    /\ pc = "built"
    /\ name = "xor"
    /\ \E n \in 1..XorMaxN : args \in [0..n - 1 -> 0..1]
    /\ call = NoCall
    /\ raised = ""
    /\ value = NoResult
    /\ decomp = NoDecomp

XorValueCall ==
    /\ pc = "built"
    /\ name = "xor"
    /\ value' = XorValue(args)
    /\ pc' = "valued"
    /\ UNCHANGED <<call, name, args, raised, decomp>>

XorDecomposeCall ==
    /\ pc = "valued"
    /\ name = "xor"
    /\ decomp' = Decomposed(XorDecompose(VarArray("x", Cardinality(DOMAIN args))),
                            Assign("x", args))
    /\ pc' = "done"
    /\ UNCHANGED <<call, name, args, raised, value>>

NextXor == XorValueCall \/ XorDecomposeCall

SpecXor == InitXor /\ [][NextXor]_vars

\* C9: for 1 to 5 arguments and every 0/1 assignment, the truth of the
\* constraint list returned by Xor.decompose() equals Xor.value(), that is,
\* the number of true arguments is odd; there is no defining constraint.
C9_XorEquivalence ==
    (pc = "done") =>
        /\ value.exc = ""
        /\ decomp.constraining = 1
        /\ decomp.defining = 0
        /\ value.ret = decomp.truth
        /\ value.ret = (Cardinality({i \in DOMAIN args : args[i] = 1}) % 2 = 1)

C9_Witness ==
    /\ pc = "done"
    /\ Cardinality(DOMAIN args) = 5
    /\ Cardinality({i \in DOMAIN args : args[i] = 1}) = 3
    /\ value.ret
    /\ decomp.truth

-----------------------------------------------------------------------------
(* Construction *)

ArgLists(m) == UNION {[1..k -> Kinds] : k \in 0..m}

StartIndexes ==
    {[kind |-> "int", v |-> x] : x \in (0 - 1)..MaxArgs}
    \cup {[kind |-> "bool", v |-> x] : x \in 0..1}
    \cup {[kind |-> k, v |-> 0] : k \in {"float", "str", "None"}}

Call(cls, a, b, c, s) == [cls |-> cls, a |-> a, b |-> b, c |-> c, start_index |-> s]

\* the call under study is a constructor call with lists of at most MaxArgs
\* arguments
InitConstruct ==
    /\ pc = "new"
    /\ \/ \E cls \in {"Circuit", "SubCircuit", "Xor"}, a \in ArgLists(MaxArgs) :
             call = Call(cls, a, <<>>, <<>>, NoCall.start_index)
       \/ \E a \in ArgLists(MaxArgs), s \in StartIndexes :
             call = Call("SubCircuitWithStart", a, <<>>, <<>>, s)
       \/ \E a \in ArgLists(MaxArgs), b \in ArgLists(MaxArgs) :
             call = Call("Inverse", a, b, <<>>, NoCall.start_index)
       \/ \E a \in [1..3 -> Kinds] :
             call = Call("IfThenElse", a, <<>>, <<>>, NoCall.start_index)
       \/ \E a \in ArgLists(MaxArgs), b \in ArgLists(1), c \in ArgLists(1) :
             call = Call("GlobalCardinalityCount", a, b, c, NoCall.start_index)
    /\ name = ""
    /\ args = <<>>
    /\ raised = ""
    /\ value = NoResult
    /\ decomp = NoDecomp

\* the caller's view of a constructor call that ended as r
Constructed(r) ==
    /\ pc = "new"
    /\ pc' = IF r.exc = "" THEN "built" ELSE "raised"
    /\ raised' = r.exc
    /\ name' = r.name
    /\ args' = r.args
    /\ UNCHANGED <<value, decomp>>

CircuitInitCall ==
    /\ call.cls = "Circuit"
    /\ Constructed(CircuitInit(call.a))
    /\ UNCHANGED call

SubCircuitInitCall ==
    /\ call.cls = "SubCircuit"
    /\ Constructed(SubCircuitInit(call.a))
    /\ UNCHANGED call

SubCircuitWithStartInitCall ==
    /\ call.cls = "SubCircuitWithStart"
    /\ Constructed(SubCircuitWithStartInit(call.a, call.start_index))
    /\ UNCHANGED call

InverseInitCall ==
    /\ call.cls = "Inverse"
    /\ Constructed(InverseInit(call.a, call.b))
    /\ UNCHANGED call

IfThenElseInitCall ==
    /\ call.cls = "IfThenElse"
    /\ Constructed(IfThenElseInit(call.a[1], call.a[2], call.a[3]))
    /\ UNCHANGED call

\* the swap of Xor.__init__ is made in the caller's list
XorInitCall ==
    /\ call.cls = "Xor"
    /\ Constructed(XorInit(call.a))
    /\ call' = [call EXCEPT !.a = XorArgList(call.a)]

GlobalCardinalityCountInitCall ==
    /\ call.cls = "GlobalCardinalityCount"
    /\ Constructed(GlobalCardinalityCountInit(call.a, call.b, call.c))
    /\ UNCHANGED call

NextConstruct ==
    \/ CircuitInitCall
    \/ SubCircuitInitCall
    \/ SubCircuitWithStartInitCall
    \/ InverseInitCall
    \/ IfThenElseInitCall
    \/ XorInitCall
    \/ GlobalCardinalityCountInitCall

SpecConstruct == InitConstruct /\ [][NextConstruct]_vars

HasBool(l) == \E i \in 1..Len(l) : l[i] \in {"boolexpr", "boolconst"}
AllBool(l) == \A i \in 1..Len(l) : l[i] \in {"boolexpr", "boolconst"}

\* the constructor call has ended with exception e and no object
RaisedOnly(e) == pc = "raised" /\ raised = e /\ name = "" /\ args = <<>>

\* C10: a constructor raises, and builds no object, on malformed input:
\* Circuit, SubCircuit and SubCircuitWithStart a TypeError on a Boolean
\* argument and an error on fewer than 2 arguments; SubCircuitWithStart a
\* TypeError on a non-integer start_index and a ValueError on one outside
\* 0..len(args)-1; IfThenElse a TypeError unless its 3 arguments are Boolean;
\* Xor a TypeError on a non-Boolean argument; Inverse and
\* GlobalCardinalityCount a TypeError on a Boolean argument.
C10_ConstructionErrors ==
    (pc # "new") =>
        /\ (pc = "raised") = (raised # "")
        /\ (pc = "raised") => (name = "" /\ args = <<>>)
        /\ (call.cls \in {"Circuit", "SubCircuit", "SubCircuitWithStart"} /\ HasBool(call.a))
              => RaisedOnly("TypeError")
        /\ (call.cls \in {"Circuit", "SubCircuit", "SubCircuitWithStart"} /\ Len(call.a) < 2)
              => (pc = "raised" /\ name = "")
        /\ (call.cls = "SubCircuitWithStart" /\ call.start_index.kind \in {"float", "str", "None"})
              => RaisedOnly("TypeError")
        /\ (call.cls = "SubCircuitWithStart" /\ ~HasBool(call.a)
               /\ call.start_index.kind = "int"
               /\ call.start_index.v \notin 0..Len(call.a) - 1)
              => RaisedOnly("ValueError")
        /\ (call.cls = "IfThenElse" /\ ~AllBool(call.a)) => RaisedOnly("TypeError")
        /\ (call.cls = "Xor" /\ ~AllBool(call.a)) => RaisedOnly("TypeError")
        /\ (call.cls = "Inverse" /\ HasBool(call.a \o call.b)) => RaisedOnly("TypeError")
        /\ (call.cls = "GlobalCardinalityCount" /\ HasBool(call.a \o call.b \o call.c))
              => RaisedOnly("TypeError")

C10_Witness ==
    /\ call.cls = "SubCircuitWithStart"
    /\ call.a = <<"intexpr", "intexpr", "intexpr">>
    /\ call.start_index = [kind |-> "int", v |-> 3]
    /\ RaisedOnly("ValueError")

-----------------------------------------------------------------------------
(* decompose_in_tree (cpmpy/transformations/decompose_global.py) *)

\* call holds the arguments of the caller's call; decomp the outcome of the
\* call: out, the list returned, and st, what the run did; value the outcome
\* of a second call, on the list the first one returned.

\* An expression object: a Node with id, its identity. The objects of the
\* input have ids 1, 2, ...; an object created during the call has id 0; an
\* auxiliary variable created by the k-th allocation has id -k.
Obj(o, a, nm, k, id) == [op |-> o, args |-> a, name |-> nm, n |-> k, id |-> id]
New(o, a) == Obj(o, a, "", 0, 0)
NewConst(k) == Obj("const", <<>>, "", k, 0)
\* Python's True, which all() returns for an empty list
PyTrue == Obj("True", <<>>, "", 1, 0)

\* the classes of the expressions
Operators == {"and", "or", "->", "not", "sum", "mul"}
BoolGlobals == {"alldifferent", "circuit", "inverse", "my_global"}
\* the numeric global constraints: is_bool() is False, and they have
\* decompose_comparison
NumGlobals == {"element", "min"}
is_any_list(e) == e.op = "list"
IsOperator(e) == e.op \in Operators
IsGlobalConstraint(e) == e.op \in BoolGlobals \cup NumGlobals
IsComparison(e) == e.op \in Comparisons
HasDecomposeComparison(e) == e.op \in NumGlobals

\* a decomposition written over placeholder variables, with the arguments of
\* the constraint put for them and its other variables created by
\* allocation gen
RECURSIVE Instantiate(_, _, _), InstantiateAll(_, _, _)
Instantiate(node, actual, gen) ==
    IF node.op = "var"
    THEN IF node.name \in DOMAIN actual THEN actual[node.name][node.n + 1]
         ELSE Obj("var", <<>>, node.name, node.n, 0 - gen)
    ELSE Obj(node.op, InstantiateAll(node.args, actual, gen), node.name, node.n, 0)

InstantiateAll(nodes, actual, gen) ==
    [i \in 1..Len(nodes) |-> Instantiate(nodes[i], actual, gen)]

\* expr.decompose() of Circuit, AllDifferent and Inverse: the pair
\* (constraining, defining)
GlobalDecompose(expr, gen) ==
    LET n == Len(expr.args)
        d == CASE expr.op = "alldifferent" -> AllDifferentDecompose(n)
               [] expr.op = "circuit" -> CircuitDecompose(n)
               [] expr.op = "inverse" -> InverseDecompose(Len(expr.args[1].args))
        actual == CASE expr.op = "alldifferent" -> [nm \in {"x"} |-> expr.args]
                    [] expr.op = "inverse" ->
                          [nm \in {"fwd", "rev"} |->
                              IF nm = "fwd" THEN expr.args[1].args ELSE expr.args[2].args]
                    [] OTHER -> [nm \in {"succ"} |-> expr.args]
    IN  [exc |-> "",
         constraining |-> InstantiateAll(d.constraining, actual, gen),
         defining |-> InstantiateAll(d.defining, actual, gen),
         allocated |-> IF Len(d.aux) = 0 THEN 0 ELSE 1]

\* a decompose() that gives the constraint itself back
DecomposeCyclic(expr, gen) ==
    IF expr.op \in {"alldifferent", "circuit", "inverse"}
    THEN GlobalDecompose(expr, gen)
    ELSE [exc |-> "", constraining |-> <<expr>>, defining |-> <<>>, allocated |-> 0]

\* a GlobalConstraint.decompose that returns two empty lists
DecomposeNothing(expr, gen) ==
    IF expr.op \in {"alldifferent", "circuit", "inverse"}
    THEN GlobalDecompose(expr, gen)
    ELSE [exc |-> "", constraining |-> <<>>, defining |-> <<>>, allocated |-> 0]

\* expr.decompose(): that of the class, or GlobalConstraint.decompose, which
\* raises
Decompose(expr, gen) ==
    IF expr.op \in {"alldifferent", "circuit", "inverse"}
    THEN GlobalDecompose(expr, gen)
    ELSE [exc |-> "NotImplementedError", constraining |-> <<>>, defining |-> <<>>,
          allocated |-> 0]

\* python_builtins.all and any over a list of expressions
PyAll(es) == IF Len(es) = 0 THEN PyTrue ELSE IF Len(es) = 1 THEN es[1] ELSE New("and", es)
PyAny(es) == IF Len(es) = 1 THEN es[1] ELSE New("or", es)

\* utils.eval_comparison(name, lhs, rhs): the comparison lhs <name> rhs
NewComparison(nm, lhs, rhs) == New(nm, <<lhs, rhs>>)

\* expr.decompose_comparison(cmp, rhs) of a numeric global constraint
DecomposeComparison(expr, cmp, rhs, gen) ==
    IF expr.op = "element"
    THEN LET arr == expr.args[1].args
             idx == expr.args[2]
         IN  [constraining |->
                  [i \in 1..Len(arr) |->
                      New("->", << NewComparison("==", idx, NewConst(i - 1)),
                                   NewComparison(cmp, arr[i], rhs) >>)]
                  \o << NewComparison(">=", idx, NewConst(0)),
                        NewComparison("<", idx, NewConst(Len(arr))) >>,
              defining |-> <<>>,
              allocated |-> 0]
    ELSE \* min
         IF cmp = "=="
         THEN [constraining |->
                  << PyAny([i \in 1..Len(expr.args) |-> NewComparison("<=", expr.args[i], rhs)]),
                     PyAll([i \in 1..Len(expr.args) |-> NewComparison(">=", expr.args[i], rhs)]) >>,
               defining |-> <<>>,
               allocated |-> 0]
         ELSE LET min_ == Obj("var", <<>>, "_min", 0, 0 - gen)
              IN  [constraining |-> << NewComparison(cmp, min_, rhs) >>,
                   defining |->
                      << PyAny([i \in 1..Len(expr.args) |->
                                   NewComparison("<=", expr.args[i], min_)]),
                         PyAll([i \in 1..Len(expr.args) |->
                                   NewComparison(">=", expr.args[i], min_)]) >>,
                   allocated |-> 1]

\* normalize.toplevel_list: nested lists and conjunctions are unravelled,
\* True is dropped
RECURSIVE toplevel_list(_)
toplevel_list(lst) ==
    IF Len(lst) = 0 THEN <<>>
    ELSE IF Len(lst) = 1
    THEN IF lst[1].op \in {"list", "and"} THEN toplevel_list(lst[1].args)
         ELSE IF lst[1].op = "True" THEN <<>>
         ELSE lst
    ELSE toplevel_list(SubSeq(lst, 1, Len(lst) \div 2))
         \o toplevel_list(SubSeq(lst, Len(lst) \div 2 + 1, Len(lst)))

\* a flipmap that keeps every relation
flipmap_kept(nm) == nm

flipmap(nm) ==
    CASE nm = "==" -> "=="
      [] nm = "!=" -> "!="
      [] nm = "<"  -> ">"
      [] nm = "<=" -> ">="
      [] nm = ">"  -> "<"
      [] nm = ">=" -> "<="

\* What a run carries through its recursive calls: toplevel, the list
\* _toplevel of the call at hand; fresh, the number of allocations of
\* auxiliary variables; assigned, the ids of the objects whose args were
\* assigned; defining, the defining constraints decompose() and
\* decompose_comparison() returned; exc, the exception raised, and culprit,
\* the name of the constraint it names.
NoRun == [toplevel |-> <<>>, fresh |-> 0, assigned |-> {}, defining |-> <<>>,
          exc |-> "", culprit |-> ""]

Raised(st, e, nm) == [st EXCEPT !.exc = e, !.culprit = nm]
Failed(st) == [out |-> <<>>, st |-> st]

\* copy.copy(expr) without the copy: the object itself
CopyAlias(expr) == expr

\* copy.copy(expr): a new object with the name and args of expr
Copy(expr) == [expr EXCEPT !.id = 0]

\* expr.args = newargs: the assignment is to the object expr
SetArgs(expr, newargs) == [expr EXCEPT !.args = newargs]

\* a test of support that takes no account of the place
is_supported_anywhere(e, supported, supported_nested, nested) ==
    e.op \in supported \cup supported_nested

is_supported(e, supported, supported_nested, nested) ==
    (nested /\ e.op \in supported_nested) \/ (~nested /\ e.op \in supported)

\* an extend that adds nothing
ExtendNothing(toplevel, define) == toplevel

\* _toplevel.extend(define)
Extend(toplevel, define) == toplevel \o define

RECURSIVE decompose_in_tree(_, _, _, _, _, _)
RECURSIVE DecomposeEach(_, _, _, _, _, _)
RECURSIVE DecomposeExpr(_, _, _, _, _, _)
RECURSIVE DecomposeGlobal(_, _, _, _, _, _)
RECURSIVE DecomposeCmp(_, _, _, _, _, _)
RECURSIVE DecomposeCmpRight(_, _, _, _, _, _, _)

\* In what follows the outcome of a call is given a name by an operator of
\* the statements after the call, applied to the call. A turn of the loop
\* gives the list of what it appends to newlist: one element, or none when
\* it raised.

\* the branch isinstance(expr, GlobalConstraint)
DecomposeGlobal(expr, supported, supported_nested, st, nested, depth) ==
    LET \* boolean global constraints
        BoolConstraining(c) ==
            IF c.st.exc # "" THEN Failed(c.st)
            ELSE [out |-> << PyAll(c.out) >>, st |-> c.st]
        BoolDecomposed(d, st1, new) ==
            IF d.exc # "" THEN Failed(Raised(st1, d.exc, new.op))
            ELSE BoolConstraining(
                     decompose_in_tree(d.constraining, supported, supported_nested,
                                       [st1 EXCEPT !.fresh = @ + d.allocated,
                                                   !.toplevel = Extend(@, d.defining),
                                                   !.defining = @ \o d.defining],
                                       nested, depth + 1))
        \* numeric global constraint
        NumDecomposed(d, aux, st1) ==
            [out |-> << aux >>,
             st |-> [st1 EXCEPT !.fresh = @ + 1 + d.allocated,
                                !.toplevel = Extend(@, d.constraining \o d.defining),
                                !.defining = @ \o d.defining]]
        NumAux(aux, st1, new) ==
            NumDecomposed(DecomposeComparison(new, "==", aux, st1.fresh + 2), aux, st1)
        Assigned(new, st1, a) ==
            CASE a.st.exc # "" -> Failed(a.st)
              [] is_supported(new, supported, supported_nested, nested) ->
                    [out |-> << new >>, st |-> st1]
              [] new.op \notin NumGlobals ->
                    BoolDecomposed(Decompose(new, st1.fresh + 1), st1, new)
              [] OTHER ->
                    NumAux(Obj("var", <<>>, "aux", 0, 0 - (st1.fresh + 1)), st1, new)
        Copied(copied, a) ==
            Assigned(SetArgs(copied, a.out), [a.st EXCEPT !.assigned = @ \cup {copied.id}], a)
    IN  Copied(Copy(expr),
               decompose_in_tree(expr.args, supported, supported_nested, st, TRUE, depth + 1))

\* the branch isinstance(expr, Comparison): the left side
DecomposeCmp(expr, supported, supported_nested, st, nested, depth) ==
    LET LeftConstraining(lc, ld) ==
            IF lc.st.exc # "" THEN Failed(lc.st)
            ELSE [out |-> << PyAll(lc.out) >>,
                  st |-> [lc.st EXCEPT !.toplevel = Extend(@, ld.defining),
                                       !.defining = @ \o ld.defining]]
        \* the left side is decomposed with the comparison
        LeftDecomposed(ld, lst) ==
            LeftConstraining(
                decompose_in_tree(ld.constraining, supported, supported_nested,
                                  [lst EXCEPT !.fresh = @ + ld.allocated], nested, depth + 1),
                ld)
        Left(lhs, lst, la) ==
            CASE la.st.exc # "" -> Failed(la.st)
              [] HasDecomposeComparison(lhs)
                 /\ ~is_supported(lhs, supported, supported_nested, nested) ->
                    LeftDecomposed(DecomposeComparison(lhs, expr.op, expr.args[2], lst.fresh + 1),
                                   lst)
              [] OTHER ->
                    DecomposeCmpRight(expr, lhs, supported, supported_nested, lst, nested, depth)
        LeftArgs(lhs0, lcopied, la) ==
            IF HasDecomposeComparison(lhs0)
            THEN Left(SetArgs(lcopied, la.out), [la.st EXCEPT !.assigned = @ \cup {lcopied.id}], la)
            ELSE Left(la.out[1], la.st, la)
    IN  LeftArgs(expr.args[1], Copy(expr.args[1]),
                 decompose_in_tree(IF HasDecomposeComparison(expr.args[1])
                                   THEN expr.args[1].args ELSE << expr.args[1] >>,
                                   supported, supported_nested, st, TRUE, depth + 1))

\* the branch isinstance(expr, Comparison): the right side, with the left
\* side lhs done
DecomposeCmpRight(expr, lhs, supported, supported_nested, st, nested, depth) ==
    LET Flipped(rc) ==
            IF rc.st.exc # "" THEN Failed(rc.st)
            ELSE [out |-> << PyAll(rc.out) >>, st |-> rc.st]
        Right(rhs, rst, ra) ==
            CASE ra.st.exc # "" -> Failed(ra.st)
              [] HasDecomposeComparison(rhs)
                 /\ ~is_supported(rhs, supported, supported_nested, nested) ->
                    \* the comparison is flipped and decomposed
                    Flipped(decompose_in_tree(<< NewComparison(flipmap(expr.op), rhs, lhs) >>,
                                              supported, supported_nested, rst, nested, depth + 1))
              [] OTHER -> [out |-> << NewComparison(expr.op, lhs, rhs) >>, st |-> rst]
        RightArgs(rhs0, rcopied, ra) ==
            IF HasDecomposeComparison(rhs0)
            THEN Right(SetArgs(rcopied, ra.out), [ra.st EXCEPT !.assigned = @ \cup {rcopied.id}], ra)
            ELSE Right(ra.out[1], ra.st, ra)
    IN  RightArgs(expr.args[2], Copy(expr.args[2]),
                  decompose_in_tree(IF HasDecomposeComparison(expr.args[2])
                                    THEN expr.args[2].args ELSE << expr.args[2] >>,
                                    supported, supported_nested, st, TRUE, depth + 1))

\* one turn of the loop over lst_of_expr
DecomposeExpr(expr, supported, supported_nested, st, nested, depth) ==
    LET Args(nm, a) ==
            IF a.st.exc # "" THEN Failed(a.st)
            ELSE [out |-> << New(nm, a.out) >>, st |-> a.st]
    IN  CASE is_any_list(expr) /\ ~nested -> Failed(Raised(st, "AssertionError", ""))
          [] is_any_list(expr) \/ IsOperator(expr) ->
                Args(IF is_any_list(expr) THEN "list" ELSE expr.op,
                     decompose_in_tree(expr.args, supported, supported_nested, st, TRUE,
                                       depth + 1))
          [] IsGlobalConstraint(expr) ->
                DecomposeGlobal(expr, supported, supported_nested, st, nested, depth)
          [] IsComparison(expr) ->
                DecomposeCmp(expr, supported, supported_nested, st, nested, depth)
          [] OTHER -> \* constants, variables
                [out |-> << expr >>, st |-> st]

\* the loop over lst_of_expr: newlist. The turns of the first half of the
\* list come before those of the second half
DecomposeEach(lst, supported, supported_nested, st, nested, depth) ==
    LET Second(h, t) == IF t.st.exc # "" THEN t ELSE [out |-> h.out \o t.out, st |-> t.st]
        First(h, n) ==
            IF h.st.exc # "" THEN h
            ELSE Second(h, DecomposeEach(SubSeq(lst, n \div 2 + 1, n), supported,
                                         supported_nested, h.st, nested, depth))
    IN  CASE Len(lst) = 0 -> [out |-> <<>>, st |-> st]
          [] Len(lst) = 1 ->
                DecomposeExpr(lst[1], supported, supported_nested, st, nested, depth)
          [] OTHER ->
                First(DecomposeEach(SubSeq(lst, 1, Len(lst) \div 2), supported,
                                    supported_nested, st, nested, depth), Len(lst))

\* A call of decompose_in_tree, at depth calls from the outermost one. st.toplevel
\* is the list _toplevel of the call: the empty list when the argument is
\* None. The call that passes _toplevel on finds it as the callee left it; the
\* call that flushes it makes a list of its own and leaves it as it is.
decompose_in_tree(lst, supported, supported_nested, st, nested, depth) ==
    LET Flushed(r, flushed) ==
            IF flushed.st.exc # ""
            THEN [out |-> <<>>, st |-> [flushed.st EXCEPT !.toplevel = r.st.toplevel]]
            ELSE [out |-> toplevel_list(r.out) \o flushed.out,
                  st |-> [flushed.st EXCEPT !.toplevel = r.st.toplevel]]
        Looped(r) ==
            CASE r.st.exc # "" \/ nested -> r
              [] Len(r.st.toplevel) > 0 ->
                    Flushed(r, decompose_in_tree(r.st.toplevel, supported, supported_nested,
                                                 [r.st EXCEPT !.toplevel = <<>>], FALSE,
                                                 depth + 1))
              [] OTHER -> [out |-> toplevel_list(r.out), st |-> r.st]
    IN  IF depth > RecursionLimit
        THEN [out |-> <<>>, st |-> Raised(st, "RecursionError", "")]
        ELSE Looped(DecomposeEach(lst, supported, supported_nested, st, nested, depth))

-----------------------------------------------------------------------------
(* The caller of decompose_in_tree: its lists, and the two calls it makes *)

\* the variables of the caller: integer variables nm[0], nm[1], ... and
\* the Boolean variable b
InVar(nm, i, id) == Obj("var", <<>>, nm, i, id)
InVars(n) == [i \in 1..n |-> InVar("x", i - 1, i)]
InOther(n) == [i \in 1..n |-> InVar("y", i - 1, DecompMaxN + i)]
InBool == InVar("b", 0, 2 * DecompMaxN + 1)
InList(a, id) == Obj("list", a, "", 0, id)

\* the Boolean global constraints the caller posts, as objects with id k;
\* my_global is a constraint of the caller's own, a subclass of
\* GlobalConstraint that defines no decompose()
BoolAtoms(k) ==
    UNION { { Obj("alldifferent", InVars(n), "", 0, k),
              Obj("circuit", InVars(n), "", 0, k),
              Obj("inverse", << InList(InVars(n), k + 1), InList(InOther(n), k + 2) >>, "", 0, k),
              Obj("my_global", InVars(n), "", 0, k) } : n \in 2..DecompMaxN }

\* the numeric ones
NumAtoms(k) ==
    UNION { { Obj("min", InVars(n), "", 0, k),
              Obj("element", << InList(InVars(n), k + 1), InOther(n)[1] >>, "", 0, k) }
            : n \in 2..DecompMaxN }

\* the places of a constraint: top level, and below an operator or a comparison
BoolPlaces(g, k) ==
    { g,
      Obj("->", << InBool, g >>, "", 0, k),
      Obj("or", << g, InBool >>, "", 0, k),
      Obj("and", << g, InBool >>, "", 0, k),
      Obj("==", << InBool, g >>, "", 0, k) }

NumPlaces(f, k) ==
    { Obj(rel, << f, InOther(2)[2] >>, "", 0, k) : rel \in {"==", "<="} }
    \cup { Obj(">=", << InOther(2)[2], f >>, "", 0, k),
           Obj("<=", << Obj("sum", << f, InOther(2)[2] >>, "", 0, k + 1), NewConst(2) >>, "", 0, k),
           Obj("->", << InBool, Obj("<=", << f, InOther(2)[2] >>, "", 0, k + 1) >>, "", 0, k),
           Obj("alldifferent", << f, InOther(2)[2] >>, "", 0, k) }

\* ids of the constraints of a list: those of the first from FirstId, those
\* of the second from SecondId
FirstId == 2 * DecompMaxN + 2
SecondId == FirstId + 6

InExprs(k) ==
    UNION { BoolPlaces(g, k) : g \in BoolAtoms(k + 2) }
    \cup UNION { NumPlaces(f, k) : f \in NumAtoms(k + 2) }

\* the second constraint of a list of two
InSeconds(k) ==
    { Obj("circuit", InVars(2), "", 0, k),
      Obj("<=", << Obj("min", InVars(2), "", 0, k + 1), InOther(2)[2] >>, "", 0, k) }

\* the names a caller passes in supported and supported_nested
SupportNames == {"alldifferent", "element", "my_global"}

NoOutcome == [out |-> <<>>, st |-> NoRun]

InitDecompose ==
    /\ pc = "built"
    /\ name = "decompose_in_tree"
    /\ \E e \in InExprs(FirstId), supported \in SUBSET SupportNames,
          supported_nested \in SUBSET SupportNames :
          \/ call = [lst |-> <<e>>, supported |-> supported,
                     supported_nested |-> supported_nested]
          \/ \E f \in InSeconds(SecondId) :
                call = [lst |-> <<e, f>>, supported |-> supported,
                        supported_nested |-> supported_nested]
    /\ args = <<>>
    /\ raised = ""
    /\ value = NoOutcome
    /\ decomp = NoOutcome

\* the caller's call decompose_in_tree(lst, supported, supported_nested)
DecomposeInTreeCall ==
    /\ pc = "built"
    /\ name = "decompose_in_tree"
    /\ LET r == decompose_in_tree(call.lst, call.supported, call.supported_nested,
                                  NoRun, FALSE, 1)
       IN  /\ decomp' = r
           /\ raised' = r.st.exc
           /\ pc' = IF r.st.exc # "" THEN "raised" ELSE "returned"
    /\ UNCHANGED <<call, name, args, value>>

\* the caller passes the list it got to decompose_in_tree again
DecomposeAgainCall ==
    /\ pc = "returned"
    /\ name = "decompose_in_tree"
    /\ LET r == decompose_in_tree(decomp.out, call.supported, call.supported_nested,
                                  NoRun, FALSE, 1)
       IN  /\ value' = r
           /\ raised' = r.st.exc
           /\ pc' = IF r.st.exc # "" THEN "raised" ELSE "done"
    /\ UNCHANGED <<call, name, args, decomp>>

NextDecompose == DecomposeInTreeCall \/ DecomposeAgainCall

SpecDecompose == InitDecompose /\ [][NextDecompose]_vars

\* A step of the caller, told by its position alone. Both calls are defined
\* for every list, so that a call can be made whenever the caller stands
\* before it, and a step of the caller is then a step of NextDecompose.
DecomposeAdvance ==
    /\ pc \in {"built", "returned"}
    /\ pc' \in {"returned", "raised", "done"}

\* the caller goes on: a call it stands before, it makes
FairDecompose == SpecDecompose /\ WF_pc(DecomposeAdvance)

-----------------------------------------------------------------------------
(* Properties of decompose_in_tree *)

\* The global constraints of an expression, each with its place: "top", a
\* top-level element; "side", a side of a top-level comparison; "nested",
\* below an operator, a global constraint or a comparison that is not top level
RECURSIVE Places(_, _)
Places(e, place) ==
    (IF IsGlobalConstraint(e) THEN {[name |-> e.op, place |-> place]} ELSE {})
    \cup UNION { Places(e.args[i], IF place = "top" /\ IsComparison(e) THEN "side" ELSE "nested")
                 : i \in 1..Len(e.args) }

PlacesOf(lst) == UNION { Places(lst[i], "top") : i \in 1..Len(lst) }

\* the expressions below an expression
RECURSIVE Subterms(_)
Subterms(e) == {e} \cup UNION { Subterms(e.args[i]) : i \in 1..Len(e.args) }
ProperSubterms(e) == UNION { Subterms(e.args[i]) : i \in 1..Len(e.args) }

\* the constraints a defining constraint comes to under the sets of the call
Rewritten(d) ==
    decompose_in_tree(<<d>>, call.supported, call.supported_nested, NoRun, FALSE, 1).out

\* how many elements of a list are the expression e
Count(lst, e) == Cardinality({i \in 1..Len(lst) : lst[i] = e})

C12_DefiningTopLevel ==
    pc = "returned" =>
        \A i \in 1..Len(decomp.st.defining) :
            LET units == Rewritten(decomp.st.defining[i])
            IN  \A k \in 1..Len(units) :
                    /\ \E j \in 1..Len(decomp.out) : decomp.out[j] = units[k]
                    /\ \A j \in 1..Len(decomp.out) : units[k] \notin ProperSubterms(decomp.out[j])

\* the call has returned after the decomposition of a constraint that stood
\* below an implication and returned defining constraints
C12_Witness ==
    /\ pc = "returned"
    /\ Len(decomp.st.defining) > 0
    /\ call.lst[1].op = "->"

\* C20: when the outermost call returns, every defining constraint that a
\* decompose() or a decompose_comparison() of the run returned occurs, in the
\* form the sets of the call give it, exactly once in the list returned.
C20_DefiningOnce ==
    pc = "returned" =>
        \A i \in 1..Len(decomp.st.defining) :
            LET units == Rewritten(decomp.st.defining[i])
            IN  \A k \in 1..Len(units) : Count(decomp.out, units[k]) = 1

\* C13: the list a second call returns, made on the list the first call
\* returned with the same sets, is the list the first call returned.
C13_Idempotent ==
    pc = "done" => value.out = decomp.out

\* the constraint my_global stands, in the list of the caller, at a place
\* where the sets of the call do not support it
UnsupportedMyGlobal ==
    \E g \in PlacesOf(call.lst) :
        /\ g.name = "my_global"
        /\ IF g.place = "top" THEN g.name \notin call.supported
           ELSE g.name \notin call.supported_nested

\* C14: the global constraints of the model decompose into one another
\* without a cycle (Circuit into AllDifferent and Element, Inverse into
\* Element, Minimum, AllDifferent and Element into none), and the outermost
\* call comes to its end, by a return or by the error of a constraint without
\* decomposition, never by the exhaustion of the recursion.
C14_Terminates ==
    <>(pc \in {"returned", "raised"} /\ raised # "RecursionError")

\* a call has returned whose accumulator had been filled, by the
\* decomposition of a Circuit, and passed to a further call
C14_Witness ==
    /\ pc = "returned"
    /\ call.lst[1].op = "circuit"
    /\ Len(decomp.st.toplevel) > 0

\* C15: the outermost call, whether it returns or raises, assigns the args
\* of no object of its input: of copies only; and the global constraints and
\* comparisons of the list it returns are objects of its own making.
C15_InputNotMutated ==
    pc # "built" =>
        /\ \A id \in decomp.st.assigned : id = 0
        /\ \A i \in 1..Len(decomp.out) :
              \A e \in Subterms(decomp.out[i]) :
                  (IsGlobalConstraint(e) \/ IsComparison(e)) => e.id = 0

\* a call that assigned the args of a global constraint has raised, and
\* another has returned
C15_Witness ==
    /\ pc = "raised"
    /\ decomp.st.assigned # {}
    /\ decomp.st.culprit = "my_global"

\* C16: when a global constraint without decomposition stands, at any depth,
\* where the sets of the call do not support it, the outermost call raises
\* NotImplementedError for that constraint and returns no list.
C16_UnimplementedRaises ==
    (pc # "built" /\ UnsupportedMyGlobal) =>
        /\ pc = "raised"
        /\ raised = "NotImplementedError"
        /\ decomp.st.culprit = "my_global"
        /\ decomp.out = <<>>

\* the call has raised for a constraint below an operator
C16_Witness ==
    /\ pc = "raised"
    /\ raised = "NotImplementedError"
    /\ call.lst[1].op \in {"->", "or", "=="}
    /\ UnsupportedMyGlobal

-----------------------------------------------------------------------------
(* linearize_constraint and only_positive_bv                                *)
(* (cpmpy/transformations/linearize.py)                                     *)

\* Variables: the integer variables x[i], with bounds 0 and LinMaxVal; the
\* Boolean variables b[i] of the caller; the Boolean variables z and sigma
\* that boolvar() makes, told apart by the number of the allocation; the
\* negated view ~bv of a Boolean variable bv.
NegBoolView(bv) == Node("~", <<bv>>, "", 0)
IsBoolVarImpl(e) == e.op = "~" \/ (e.op = "var" /\ e.name \in {"b", "z", "sigma"})
IsNumVarImpl(e) == e.op \in {"var", "~"}
VarLb(e) == 0
VarUb(e) == IF IsBoolVarImpl(e) THEN 1 ELSE LinMaxVal

\* Operator("wsum", [ws, xs])
Wsum(ws, xs) == Op("wsum", << List([i \in 1..Len(ws) |-> Const(ws[i])]), List(xs) >>)

\* the terms w * x of a variable, a sum, a wsum or a product c * x
Terms(e) ==
    IF e.op = "sum" THEN [i \in 1..Len(e.args) |-> [w |-> 1, x |-> e.args[i]]]
    ELSE IF e.op = "wsum"
    THEN [i \in 1..Len(e.args[2].args) |-> [w |-> e.args[1].args[i].n, x |-> e.args[2].args[i]]]
    ELSE IF e.op = "mul" THEN << [w |-> e.args[1].n, x |-> e.args[2]] >>
    ELSE << [w |-> 1, x |-> e] >>

\* Python's sum over the products w * x of a list of terms: 1 * x is x, 0 + e
\* is e, a sum of several variables is a "sum", and one with a product c * x
\* among its arguments becomes a "wsum"
LinSum(terms) ==
    IF Len(terms) = 0 THEN Const(0)
    ELSE IF Len(terms) = 1
    THEN IF terms[1].w = 1 THEN terms[1].x ELSE Op("mul", << Const(terms[1].w), terms[1].x >>)
    ELSE IF \A i \in 1..Len(terms) : terms[i].w = 1
    THEN Op("sum", [i \in 1..Len(terms) |-> terms[i].x])
    ELSE Wsum([i \in 1..Len(terms) |-> terms[i].w], [i \in 1..Len(terms) |-> terms[i].x])

\* get_or_make_var(e).ub for e = k + the terms: the upper bound of the expression
TermsUb(terms, k) ==
    k + SumSeq([i \in 1..Len(terms) |->
                  IF terms[i].w >= 0 THEN terms[i].w * VarUb(terms[i].x)
                  ELSE terms[i].w * VarLb(terms[i].x)])

\* the terms of -e
Negated(terms) == [i \in 1..Len(terms) |-> [w |-> 0 - terms[i].w, x |-> terms[i].x]]

\* the outcome of a call: the list returned, the number of allocations of
\* variables made so far, and the exception raised
LinOut(out, fresh) == [out |-> out, fresh |-> fresh, exc |-> ""]
LinRaise(e, fresh) == [out |-> <<>>, fresh |-> fresh, exc |-> e]

\* the bound of a strict comparison is kept
NewRhsKept(nm, rhs) == rhs

\* new_rhs of a strict comparison with an integer rhs: get_or_make_var(rhs - 1)
\* for "<" and get_or_make_var(rhs + 1) for ">" give the integer itself
NewRhs(nm, rhs) == IF nm = "<" THEN rhs - 1 ELSE rhs + 1

\* a product c * x is left as it is
ConvertToWsumSkipped(lhs) == lhs

\* convert to wsum: a product c * x becomes Operator("wsum", [[c], [x]])
ConvertToWsum(lhs) ==
    IF lhs.op = "mul" /\ lhs.args[1].op = "const"
    THEN Wsum(<< lhs.args[1].n >>, << lhs.args[2] >>)
    ELSE lhs

RECURSIVE linearize_constraint(_, _, _)
RECURSIVE LinearizeEach(_, _, _)
RECURSIVE LinearizeComparison(_, _, _)

\* the branch Comparison of linearize_constraint, for supported = {"sum", "wsum"}
LinearizeComparison(cpm_expr, reified, fresh) ==
    LET lhs0 == cpm_expr.args[1]
        rhs0 == cpm_expr.args[2]
        unsupported == lhs0.op \notin {"sum", "wsum"}
        varnum == unsupported /\ IsNumVarImpl(lhs0) /\ rhs0.op = "const"
        varvar == unsupported /\ IsNumVarImpl(lhs0) /\ IsNumVarImpl(rhs0)
        sub == unsupported /\ ~IsNumVarImpl(lhs0) /\ lhs0.op = "sub"
        element == unsupported /\ ~IsNumVarImpl(lhs0) /\ lhs0.op = "element"
        \* linearize unsupported operators
        lhs1 == IF varvar THEN LinSum(<< [w |-> 1, x |-> lhs0], [w |-> 0 - 1, x |-> rhs0] >>)
                ELSE IF sub
                THEN LinSum(<< [w |-> 1, x |-> lhs0.args[1]], [w |-> 0 - 1, x |-> lhs0.args[2]] >>)
                ELSE lhs0
        rhs1 == IF varvar THEN Const(0) ELSE rhs0
        \* bring all vars to lhs
        linear == lhs1.op \in {"sum", "wsum"}
        terms2 == IF linear /\ IsNumVarImpl(rhs1)
                  THEN IF lhs1.op = "sum"
                       THEN << [w |-> 0 - 1, x |-> rhs1] >> \o Terms(lhs1)
                       ELSE Terms(lhs1) \o << [w |-> 0 - 1, x |-> rhs1] >>
                  ELSE Terms(lhs1)
        rhs2 == IF linear /\ IsNumVarImpl(rhs1) THEN 0 ELSE rhs1.n
        \* bring all const to rhs
        vars3 == SelectSeq(terms2, LAMBDA t : t.x.op # "const")
        consts3 == SelectSeq(terms2, LAMBDA t : t.x.op = "const")
        lhs3 == IF linear THEN LinSum(vars3) ELSE lhs1
        rhs3 == IF linear
                THEN rhs2 - SumSeq([i \in 1..Len(consts3) |-> consts3[i].w * consts3[i].x.n])
                ELSE rhs2
        \* convert to wsum
        lhs == ConvertToWsum(lhs3)
        rhs == rhs3
        \* the element constraint
        arr == lhs0.args[1].args
        idx == lhs0.args[2]
        sigma == [i \in 1..Len(arr) |-> Var("sigma", 10 * (fresh + 1) + (i - 1))]
        channel == << Cmp("==", LinSum([i \in 1..Len(arr) |-> [w |-> 1, x |-> sigma[i]]]),
                                Const(1)),
                      Cmp("==", LinSum([i \in 1..Len(arr) |-> [w |-> i - 1, x |-> sigma[i]]]),
                                idx) >>
                   \o [i \in 1..Len(arr) |->
                         Op("->", << sigma[i], Cmp(cpm_expr.op, arr[i], rhs0) >>)]
        \* Big M implementation
        z == Var("z", fresh + 1)
        M == Max2(TermsUb(Terms(lhs), 1 - rhs), TermsUb(Negated(Terms(lhs)), 1 + rhs))
        bigm == << Cmp("<=", LinSum(Terms(lhs) \o << [w |-> 0 - M, x |-> z] >>), Const(rhs - 1)),
                   Cmp(">=", LinSum(Terms(lhs) \o << [w |-> M, x |-> z] >>), Const(rhs + M + 1)) >>
        \* new indicator constraints
        indicators == << Op("->", << z, Cmp("<", lhs, Const(rhs)) >>),
                         Op("->", << NegBoolView(z), Cmp(">", lhs, Const(rhs)) >>) >>
    IN  IF element THEN LinearizeEach(channel, reified, fresh + 1)
        ELSE IF unsupported /\ ~varnum /\ ~varvar /\ ~sub
        THEN LinRaise("NotImplementedError", fresh)
        ELSE IF cpm_expr.op = "<" THEN LinOut(<< Cmp("<=", lhs, Const(NewRhs("<", rhs))) >>, fresh)
        ELSE IF cpm_expr.op = ">" THEN LinOut(<< Cmp(">=", lhs, Const(NewRhs(">", rhs))) >>, fresh)
        ELSE IF cpm_expr.op = "!="
        THEN IF reified \/ (lhs.op \notin {"sum", "wsum"} /\ ~IsNumVarImpl(lhs))
             THEN LinearizeEach(bigm, reified, fresh + 1)
             ELSE LinearizeEach(indicators, reified, fresh + 1)
        ELSE LinOut(<< Cmp(cpm_expr.op, lhs, Const(rhs)) >>, fresh)

\* the alldifferent branch with the values of the links counted from lb + 1
LinearizeAllDifferentFromOne(cpm_expr, fresh) ==
    LET n == Len(cpm_expr.args)
        lbs == {VarLb(cpm_expr.args[i]) : i \in 1..n}
        ubs == {VarUb(cpm_expr.args[i]) : i \in 1..n}
        lb == CHOOSE l \in lbs : \A o \in lbs : l <= o
        ub == CHOOSE u \in ubs : \A o \in ubs : u >= o
        sigma == [i \in 1..n |-> [k \in 1..1 + ub - lb |->
                     Var("sigma", 100 * (fresh + 1) + 10 * (i - 1) + (k - 1))]]
    IN  LinOut([i \in 1..n |->
                   Cmp("==", LinSum([k \in 1..1 + ub - lb |-> [w |-> 1, x |-> sigma[i][k]]]),
                             Const(1))]
               \o [k \in 1..1 + ub - lb |->
                   Cmp("<=", LinSum([i \in 1..n |-> [w |-> 1, x |-> sigma[i][k]]]), Const(1))]
               \o [i \in 1..n |->
                   Cmp("==", LinSum([k \in 1..1 + ub - lb |->
                                       [w |-> lb + k, x |-> sigma[i][k]]]),
                             cpm_expr.args[i])],
               fresh + 1)

\* the alldifferent branch: a matrix sigma of Boolean variables, one row per
\* argument and one column per value of lb..ub, lb and ub the bounds of the
\* integer variables
LinearizeAllDifferent(cpm_expr, fresh) ==
    LET n == Len(cpm_expr.args)
        lbs == {VarLb(cpm_expr.args[i]) : i \in 1..n}
        ubs == {VarUb(cpm_expr.args[i]) : i \in 1..n}
        lb == CHOOSE l \in lbs : \A o \in lbs : l <= o
        ub == CHOOSE u \in ubs : \A o \in ubs : u >= o
        sigma == [i \in 1..n |-> [k \in 1..1 + ub - lb |->
                     Var("sigma", 100 * (fresh + 1) + 10 * (i - 1) + (k - 1))]]
    IN  LinOut([i \in 1..n |->
                   Cmp("==", LinSum([k \in 1..1 + ub - lb |-> [w |-> 1, x |-> sigma[i][k]]]),
                             Const(1))]
               \o [k \in 1..1 + ub - lb |->
                   Cmp("<=", LinSum([i \in 1..n |-> [w |-> 1, x |-> sigma[i][k]]]), Const(1))]
               \o [i \in 1..n |->
                   Cmp("==", LinSum([k \in 1..1 + ub - lb |->
                                       [w |-> lb + k - 1, x |-> sigma[i][k]]]),
                             cpm_expr.args[i])],
               fresh + 1)

\* linearize_constraint(cpm_expr, reified=reified) with the default supported
linearize_constraint(cpm_expr, reified, fresh) ==
    IF cpm_expr.op = "list" THEN LinearizeEach(cpm_expr.args, reified, fresh)
    ELSE IF IsBoolVarImpl(cpm_expr)
    THEN IF cpm_expr.op = "~"
         THEN LinOut(<< Cmp("<=", LinSum(<< [w |-> 1, x |-> cpm_expr.args[1]] >>), Const(0)) >>, fresh)
         ELSE LinOut(<< Cmp(">=", LinSum(<< [w |-> 1, x |-> cpm_expr] >>), Const(1)) >>, fresh)
    ELSE IF cpm_expr.op = "and"
    THEN LinOut(<< Cmp(">=", LinSum([i \in 1..Len(cpm_expr.args) |-> [w |-> 1, x |-> cpm_expr.args[i]]]),
                             Const(Len(cpm_expr.args))) >>, fresh)
    ELSE IF cpm_expr.op = "or"
    THEN LinOut(<< Cmp(">=", LinSum([i \in 1..Len(cpm_expr.args) |-> [w |-> 1, x |-> cpm_expr.args[i]]]),
                             Const(1)) >>, fresh)
    ELSE IF cpm_expr.op = "->"
    THEN LET cond == cpm_expr.args[1]
             sub_expr == cpm_expr.args[2]
             \* ~cond: the view of a variable, the variable of a view
             notcond == IF cond.op = "~" THEN cond.args[1] ELSE NegBoolView(cond)
             lin_sub == linearize_constraint(sub_expr, TRUE, fresh)
         IN  IF ~IsBoolVarImpl(cond) THEN LinRaise("AssertionError", fresh)
             ELSE IF IsBoolVarImpl(sub_expr)
             THEN linearize_constraint(Op("or", << notcond, sub_expr >>), reified, fresh)
             ELSE IF lin_sub.exc # "" THEN lin_sub
             ELSE LinOut([i \in 1..Len(lin_sub.out) |-> Op("->", << cond, lin_sub.out[i] >>)],
                         lin_sub.fresh)
    ELSE IF cpm_expr.op \in Comparisons THEN LinearizeComparison(cpm_expr, reified, fresh)
    ELSE IF cpm_expr.op = "alldifferent" THEN LinearizeAllDifferent(cpm_expr, fresh)
    ELSE LinOut(<< cpm_expr >>, fresh)

\* the list branch: the lists of the constraints, one after the other
LinearizeEach(lst, reified, fresh) ==
    IF Len(lst) = 0 THEN LinOut(<<>>, fresh)
    ELSE LET h == linearize_constraint(lst[1], reified, fresh)
             t == LinearizeEach(SubSeq(lst, 2, Len(lst)), reified, h.fresh)
         IN  IF h.exc # "" THEN h
             ELSE IF t.exc # "" THEN t
             ELSE LinOut(h.out \o t.out, t.fresh)

\* the rhs of a comparison decreased by k: an int, or the expression rhs - k,
\* which is rhs itself for k = 0
RhsMinus(rhs, k) ==
    IF rhs.op = "const" THEN Const(rhs.n - k)
    ELSE IF k = 0 THEN rhs
    ELSE LinSum(<< [w |-> 1, x |-> rhs], [w |-> 1, x |-> Const(0 - k)] >>)

\* the rhs is decreased by the number of the views
RhsOffsetCount(weights, idxes) == Cardinality(idxes)

\* sum(weights[i] for i in idxes)
RhsOffset(weights, idxes) ==
    SumSeq([i \in 1..Len(weights) |-> IF i \in idxes THEN weights[i] ELSE 0])

\* GlobalConstraint: the Boolean global constraints
IsGlobalImpl(e) == e.op \in {"alldifferent", "circuit", "inverse", "table", "xor"}

\* isinstance(lhs, Operator)
IsOperatorImpl(e) ==
    e.op \in {"and", "or", "->", "not", "sum", "wsum", "sub", "mul", "div", "mod", "pow", "-", "abs"}

\* the branch Comparison of only_positive_bv
OnlyPositiveComparison(cpm_expr, fresh) ==
    LET lhs0 == cpm_expr.args[1]
        rhs0 == cpm_expr.args[2]
        view == lhs0.op = "~"
        lhs1 == IF view THEN Op("-", << lhs0.args[1] >>) ELSE lhs0
        rhs1 == IF view THEN RhsMinus(rhs0, 1) ELSE rhs0
        lhs2 == IF lhs1.op = "sum" /\ \E i \in 1..Len(lhs1.args) : lhs1.args[i].op = "~"
                THEN Wsum([i \in 1..Len(lhs1.args) |-> 1], lhs1.args)
                ELSE lhs1
        wsum == lhs2.op = "wsum"
        weights == [i \in 1..Len(lhs2.args[1].args) |-> lhs2.args[1].args[i].n]
        xs == lhs2.args[2].args
        idxes == {i \in 1..Len(xs) : xs[i].op = "~"}
        nw == [i \in 1..Len(xs) |-> IF i \in idxes THEN 0 - weights[i] ELSE weights[i]]
        na == [i \in 1..Len(xs) |-> IF i \in idxes THEN xs[i].args[1] ELSE xs[i]]
        lhs3 == IF wsum THEN Wsum(nw, na) ELSE lhs2
        rhs3 == IF wsum THEN RhsMinus(rhs1, RhsOffset(weights, idxes)) ELSE rhs1
        \* other operators in comparison such as "min", "max"
        other == IsOperatorImpl(lhs3) /\ lhs3.op \notin {"sum", "wsum"}
        views == IF other THEN {i \in 1..Len(lhs3.args) : lhs3.args[i].op = "~"} ELSE {}
        rank(i) == Cardinality({j \in views : j <= i})
        lhs == IF other
               THEN [lhs3 EXCEPT !.args = [i \in 1..Len(lhs3.args) |->
                        IF i \in views THEN Var("iv", fresh + rank(i)) ELSE lhs3.args[i]]]
               ELSE lhs3
        new_cons == [k \in 1..Cardinality(views) |->
                       LET i == CHOOSE j \in views : rank(j) = k
                       IN  Cmp("==", Wsum(<< 0 - 1 >>, << lhs3.args[i] >>),
                                     LinSum(<< [w |-> 1, x |-> Var("iv", fresh + k)],
                                               [w |-> 1, x |-> Const(0 - 1)] >>))]
    IN  LinOut(<< Cmp(cpm_expr.op, lhs, rhs3) >> \o new_cons, fresh + Cardinality(views))

RECURSIVE only_positive_bv(_, _)
RECURSIVE OnlyPositiveEach(_, _)

\* only_positive_bv(cpm_expr)
only_positive_bv(cpm_expr, fresh) ==
    IF cpm_expr.op = "list" THEN OnlyPositiveEach(cpm_expr.args, fresh)
    ELSE IF cpm_expr.op \in Comparisons THEN OnlyPositiveComparison(cpm_expr, fresh)
    ELSE IF cpm_expr.op = "->"
    THEN LET cond == cpm_expr.args[1]
             subexpr == only_positive_bv(cpm_expr.args[2], fresh)
         IN  IF ~IsBoolVarImpl(cond) THEN LinRaise("AssertionError", fresh)
             ELSE IF subexpr.exc # "" THEN subexpr
             ELSE LinOut([i \in 1..Len(subexpr.out) |-> Op("->", << cond, subexpr.out[i] >>)],
                         subexpr.fresh)
    ELSE IF IsGlobalImpl(cpm_expr) THEN LinOut(<< cpm_expr >>, fresh)
    ELSE LinRaise("Exception", fresh)

\* the list branch: the lists of the constraints, one after the other
OnlyPositiveEach(lst, fresh) ==
    IF Len(lst) = 0 THEN LinOut(<<>>, fresh)
    ELSE LET h == only_positive_bv(lst[1], fresh)
             t == OnlyPositiveEach(SubSeq(lst, 2, Len(lst)), h.fresh)
         IN  IF h.exc # "" THEN h
             ELSE IF t.exc # "" THEN t
             ELSE LinOut(h.out \o t.out, t.fresh)

(* The caller: one constraint in flat normal form, with implications only  *)
(* from Boolean variables, is linearized and the list is then passed to    *)
(* only_positive_bv. call = the constraint; decomp = the outcome of        *)
(* linearize_constraint; value = the outcome of only_positive_bv.          *)

LinBoolVars == {Var("b", 0), Var("b", 1)}
LinIntVars == {Var("x", i) : i \in 0..LinMaxArity - 1}
LinLiterals == LinBoolVars \cup {NegBoolView(b) : b \in LinBoolVars}
LinWeights == (0 - LinMaxW..LinMaxW) \ {0}
LinRhs == {Const(k) : k \in 0 - 1..LinMaxRhs} \cup {Var("x", 1)}

\* the argument lists of the alldifferent constraints of the caller: two
\* to LinMaxArity integer variables, a variable possibly more than once
LinVarLists ==
    UNION {{xs \in [1..n -> LinIntVars] : \A i \in 1..n - 1 : xs[i].n <= xs[i + 1].n} :
              n \in 2..LinMaxArity}

\* the left sides of the comparisons of the caller
LinLhs ==
    {Var("x", 0), Var("b", 0), NegBoolView(Var("b", 0))}
    \cup {Op("sum", << l1, l2 >>) : l1, l2 \in LinLiterals}
    \cup {Op("sum", << Var("x", 0), y >>) : y \in {Var("x", 1), Const(1), NegBoolView(Var("b", 1))}}
    \cup {Wsum(<< w1, w2 >>, << l, y >>) :
             w1, w2 \in LinWeights, l \in {Var("b", 0), NegBoolView(Var("b", 0))},
             y \in {Var("x", 0), NegBoolView(Var("b", 0)), NegBoolView(Var("b", 1))}}
    \cup {Wsum(<< w >>, << y >>) : w \in LinWeights, y \in {Var("x", 0), NegBoolView(Var("b", 0))}}
    \cup {Op("sub", << Var("x", 0), Var("x", 1) >>),
          Element(<< Var("x", 0), Var("x", 1) >>, Var("x", 1)),
          Op("mul", << Const(2), Var("x", 0) >>)}

LinComparisons == {Cmp(o, l, r) : o \in Comparisons, l \in LinLhs, r \in LinRhs}

\* the constraints of the caller
LinInputs ==
    LinLiterals
    \cup {Op(o, << l1, l2 >>) : o \in {"and", "or", "->"}, l1, l2 \in LinLiterals}
    \cup LinComparisons
    \cup {Op("->", << l, c >>) : l \in {Var("b", 1), NegBoolView(Var("b", 1))}, c \in LinComparisons}
    \cup {Op("xor", << Var("b", 0), Var("b", 1) >>)}
    \cup {Op("alldifferent", xs) : xs \in LinVarLists}

NoLin == LinOut(<<>>, 0)

InitLinearize ==
    /\ pc = "built"
    /\ name = "linearize_constraint"
    /\ call \in LinInputs
    /\ args = <<>>
    /\ raised = ""
    /\ value = NoLin
    /\ decomp = NoLin

\* linearize_constraint(cpm_expr)
LinearizeCall ==
    /\ pc = "built"
    /\ name = "linearize_constraint"
    /\ LET r == linearize_constraint(call, FALSE, 0)
       IN  /\ decomp' = r
           /\ raised' = r.exc
           /\ pc' = IF r.exc # "" THEN "raised" ELSE "linearized"
    /\ UNCHANGED <<call, name, args, value>>

\* only_positive_bv(linearize_constraint(cpm_expr))
OnlyPositiveCall ==
    /\ pc = "linearized"
    /\ name = "linearize_constraint"
    /\ LET r == only_positive_bv(List(decomp.out), decomp.fresh)
       IN  /\ value' = r
           /\ raised' = r.exc
           /\ pc' = IF r.exc # "" THEN "raised" ELSE "positive"
    /\ UNCHANGED <<call, name, args, decomp>>

NextLinearize == LinearizeCall \/ OnlyPositiveCall

SpecLinearize == InitLinearize /\ [][NextLinearize]_vars

-----------------------------------------------------------------------------
(* Properties of linearize_constraint and only_positive_bv                  *)

RECURSIVE Consequent(_)
\* the constraint below the implications of a constraint
Consequent(e) == IF e.op = "->" THEN Consequent(e.args[2]) ELSE e

RECURSIVE HasView(_)
\* a negated view occurs in the expression
HasView(e) == e.op = "~" \/ \E i \in 1..Len(e.args) : HasView(e.args[i])

RECURSIVE VarsOf(_)
\* the variables of an expression, a view counted as its variable
VarsOf(e) ==
    IF e.op = "var" THEN {e}
    ELSE UNION {VarsOf(e.args[i]) : i \in 1..Len(e.args)}

\* the assignments of values to a set of variables
Assignments(V) == {f \in [V -> 0..LinMaxVal] : \A v \in V : f[v] <= VarUb(v)}

RECURSIVE LinValue(_, _)
\* the value of a linear expression under an assignment
LinValue(e, f) ==
    IF e.op = "const" THEN e.n
    ELSE IF e.op = "var" THEN f[e]
    ELSE IF e.op = "~" THEN 1 - f[e.args[1]]
    ELSE IF e.op = "-" THEN 0 - LinValue(e.args[1], f)
    ELSE IF e.op = "sum" THEN SumSeq([i \in 1..Len(e.args) |-> LinValue(e.args[i], f)])
    ELSE IF e.op = "wsum"
    THEN SumSeq([i \in 1..Len(e.args[2].args) |->
                   e.args[1].args[i].n * LinValue(e.args[2].args[i], f)])
    ELSE 0

\* the truth value of a comparison under an assignment
Holds(c, f) == EvalComparison(c.op, LinValue(c.args[1], f), LinValue(c.args[2], f))

\* C17: when linearize_constraint returns, every comparison of the list, at
\* top level or as the consequent of an implication, has a variable, a sum
\* or a wsum as left side, and its relation is ==, <= or >=.
C17_LinearForm ==
    (pc \in {"linearized", "positive"} /\ name = "linearize_constraint") =>
        \A i \in 1..Len(decomp.out) :
            LET c == Consequent(decomp.out[i])
            IN  c.op \in Comparisons =>
                    /\ c.args[1].op \in {"var", "~", "sum", "wsum"}
                    /\ c.op \in {"==", "<=", ">="}

\* a disequality below an implication, a strict inequality and a product
\* c * x were linearized
C17_Witness ==
    /\ pc = "linearized"
    /\ name = "linearize_constraint"
    /\ \/ call.op = "->" /\ call.args[2].op = "!=" /\ Len(decomp.out) = 2
       \/ call.op = "<" /\ call.args[1].op = "wsum" /\ Len(call.args[1].args[2].args) = 1
          /\ call.args[1].args[2].args[1].op = "var" /\ Len(decomp.out) = 1

\* C18: after linearize_constraint and only_positive_bv no negated view
\* occurs anywhere in a returned constraint, the antecedent of an
\* implication included.
C18_NoNegBoolView ==
    (pc = "positive" /\ name = "linearize_constraint") =>
        \A i \in 1..Len(value.out) : ~HasView(value.out[i])

\* the comparison that a comparison with views is to become: -b for a lone
\* view, and for a sum or a wsum the wsum with the weights of the views
\* negated, over the variables, the rhs decreased by the weights of the views
C19_Rewritten(c) ==
    LET lhs == c.args[1]
        r == c.args[2].n
        t == Terms(lhs)
        I == {i \in 1..Len(t) : t[i].x.op = "~"}
    IN  IF lhs.op = "~" THEN Cmp(c.op, Op("-", << lhs.args[1] >>), Const(r - 1))
        ELSE Cmp(c.op,
                 Wsum([i \in 1..Len(t) |-> IF i \in I THEN 0 - t[i].w ELSE t[i].w],
                      [i \in 1..Len(t) |-> IF i \in I THEN t[i].x.args[1] ELSE t[i].x]),
                 Const(r - SumSeq([i \in 1..Len(t) |-> IF i \in I THEN t[i].w ELSE 0])))

\* C19: only_positive_bv rewrites a comparison ~b rel r to -b rel r-1, and
\* a sum or wsum with views to the wsum with the weights of the views
\* negated, the views replaced by their variables and the rhs decreased by
\* the weights of the views; every comparison keeps its truth value under
\* every assignment.
C19_MeaningPreserved ==
    (pc = "positive" /\ name = "linearize_constraint") =>
        /\ Len(value.out) = Len(decomp.out)
        /\ \A i \in 1..Len(decomp.out) :
              LET c == Consequent(decomp.out[i])
                  d == Consequent(value.out[i])
              IN  c.op \in Comparisons =>
                     /\ d.op = c.op
                     /\ (c.args[1].op \in {"~", "sum", "wsum"} /\ HasView(c.args[1]))
                            => d = C19_Rewritten(c)
                     /\ \A f \in Assignments(VarsOf(c) \cup VarsOf(d)) : Holds(c, f) <=> Holds(d, f)

\* sum([b, ~b]) >= 1 became wsum([1, -1], [b, b]) >= 0, and a lone view
\* ~b <= 0 became -b <= -1
C19_Witness ==
    /\ pc = "positive"
    /\ name = "linearize_constraint"
    /\ \/ /\ decomp.out = << Cmp(">=", Op("sum", << Var("b", 0), NegBoolView(Var("b", 0)) >>), Const(1)) >>
          /\ value.out = << Cmp(">=", Wsum(<< 1, 0 - 1 >>, << Var("b", 0), Var("b", 0) >>), Const(0)) >>
       \/ /\ decomp.out = << Cmp("<=", NegBoolView(Var("b", 0)), Const(0)) >>
          /\ value.out = << Cmp("<=", Op("-", << Var("b", 0) >>), Const(0 - 1)) >>

-----------------------------------------------------------------------------
(* Properties of Xor.__init__                                               *)

\* a call Xor([a, b]) with exactly one constant among a and b
OneConstant(l) == Len(l) = 2 /\ (is_num(l[1]) # is_num(l[2]))

\* C27, as stated: a call Xor([a, b]) with exactly one constant stores the
\* constant on the right, args[0] being the expression, whichever order the
\* caller passed.
C27_ConstantRight ==
    [][(call.cls = "Xor" /\ OneConstant(call.a) /\ pc' = "built")
          => (~is_num(args'[1]) /\ is_num(args'[2]))]_vars

\* C27: a call Xor([a, b]) with exactly one constant stores the constant on
\* the left, args[0] being the constant and args[1] the expression,
\* whichever order the caller passed.
C27_ConstantLeft ==
    [][(call.cls = "Xor" /\ OneConstant(call.a) /\ pc' = "built")
          => (is_num(args'[1]) /\ ~is_num(args'[2]))]_vars

\* an Xor of a constant and an expression was built
C27_Witness ==
    /\ pc = "built"
    /\ call.cls = "Xor"
    /\ name = "xor"
    /\ args = << "boolconst", "boolexpr" >>

\* C29: a constructor call leaves the list the caller passed as it was.
C29_ArgListUnchanged == [][call' = call]_vars

-----------------------------------------------------------------------------
(* Properties of SubCircuit.value on successors that repeat a value         *)

\* two positions hold the same successor value
Repeats(succ) == \E i, j \in DOMAIN succ : i # j /\ succ[i] = succ[j]

\* the first node that does not loop on itself
FirstNonLoop(succ) == CHOOSE i \in NonLoops(succ) : \A j \in NonLoops(succ) : i <= j

\* C28: for successors within 0..n-1 that are not all self-loops and in which
\* two positions hold the same value, value() returns false without raising,
\* although its AllDifferent check, applied to the one value succ[start_index],
\* passes where a check of the whole list would fail.
C28_RepeatedSuccessor ==
    (pc \in {"valued", "done"} /\ name = "subcircuit"
       /\ NonLoops(args) # {} /\ Repeats(args)) =>
        /\ value.called
        /\ value.exc = ""
        /\ value.ret = FALSE
        /\ AllDifferentValue(SubCircuitAllDiffArg(args, FirstNonLoop(args)))
        /\ ~AllDifferentValue(args)

\* value() was called on a subcircuit of the largest size whose walk from the
\* first non-loop closes, with a node outside it pointing into it
C28_Witness ==
    /\ pc = "valued"
    /\ name = "subcircuit"
    /\ Cardinality(DOMAIN args) = SubCircuitMaxN
    /\ args[0] = 1 /\ args[1] = 0 /\ args[2] = 0
    /\ Repeats(args)
    /\ ~value.ret

-----------------------------------------------------------------------------
(* Properties of the Big-M encoding of a disequality                        *)

\* the indicator variables z of an expression
Indicators(e) == {v \in VarsOf(e) : v.name = "z"}

\* a disequality lhs != rhs below an implication was encoded with Big-M: two
\* implications whose consequents hold the indicator z
BigMEncoded ==
    /\ pc = "linearized"
    /\ name = "linearize_constraint"
    /\ call.op = "->"
    /\ call.args[2].op = "!="
    /\ call.args[2].args[1].op \in {"var", "~", "sum", "wsum"}
    /\ Len(decomp.out) = 2
    /\ \A i \in 1..2 : Indicators(Consequent(decomp.out[i])) # {}

\* the assignments of the variables of c under which some value of the
\* indicators satisfies the two constraints made for c
BigMFeasible(c, d1, d2) ==
    {f \in Assignments(VarsOf(c)) :
        \E g \in Assignments(VarsOf(c) \cup VarsOf(d1) \cup VarsOf(d2)) :
            /\ \A v \in VarsOf(c) : g[v] = f[v]
            /\ Holds(d1, g)
            /\ Holds(d2, g)}

\* C22: for every value of the two sides of lhs != rhs within bounds, some
\* value of the indicator z satisfies the two Big-M constraints exactly when
\* lhs differs from rhs: lhs < rhs and lhs > rhs are feasible, lhs = rhs not.
C22_BigMExact ==
    BigMEncoded =>
        LET c == call.args[2]
        IN  BigMFeasible(c, Consequent(decomp.out[1]), Consequent(decomp.out[2]))
              = {f \in Assignments(VarsOf(c)) : Holds(c, f)}

\* what the two Big-M constraints admit: the values with lhs > rhs
BigMGreater ==
    BigMEncoded =>
        LET c == call.args[2]
        IN  BigMFeasible(c, Consequent(decomp.out[1]), Consequent(decomp.out[2]))
              = {f \in Assignments(VarsOf(c)) : Holds(Cmp(">", c.args[1], c.args[2]), f)}

-----------------------------------------------------------------------------
(* Properties of the linearization of strict comparisons                    *)

\* a strict comparison of a variable, a view, a sum or a wsum with an
\* integer constant was linearized
StrictLinearized ==
    /\ pc = "linearized"
    /\ name = "linearize_constraint"
    /\ call.op \in {"<", ">"}
    /\ call.args[1].op \in {"var", "~", "sum", "wsum"}
    /\ call.args[2].op = "const"

\* C23: lhs < c becomes the one constraint lhs <= c - 1 and lhs > c the one
\* constraint lhs >= c + 1, for an integer constant c: no variable is made,
\* nothing else is returned, a variable on the left is kept as it is, and the
\* constraint has the truth value of the strict one under every assignment.
C23_StrictToNonStrict ==
    StrictLinearized =>
        LET c == call.args[2].n
            d == decomp.out[1]
        IN  /\ Len(decomp.out) = 1
            /\ decomp.fresh = 0
            /\ d.op = (IF call.op = "<" THEN "<=" ELSE ">=")
            /\ d.args[2].op = "const"
            /\ VarsOf(d) = VarsOf(call)
            /\ call.args[1].op \in {"var", "~"} =>
                  d = Cmp(d.op, call.args[1], Const(IF call.op = "<" THEN c - 1 ELSE c + 1))
            /\ \A f \in Assignments(VarsOf(call)) : Holds(d, f) <=> Holds(call, f)

\* x < 2 became x <= 1
C23_Witness ==
    /\ pc = "linearized"
    /\ call = Cmp("<", Var("x", 0), Const(LinMaxRhs))
    /\ decomp.out = << Cmp("<=", Var("x", 0), Const(LinMaxRhs - 1)) >>

-----------------------------------------------------------------------------
(* Properties of the linearization of a product c * x                       *)

\* C26: linearize_constraint, called on a comparison c * x rel r whose left
\* side is the operator mul of a number c and a variable x, returns the one
\* comparison wsum([c], [x]) rel r.
C26_MulToWsum ==
    (pc # "built" /\ name = "linearize_constraint"
       /\ call.op \in Comparisons /\ call.args[1].op = "mul"
       /\ call.args[1].args[1].op = "const" /\ call.args[1].args[2].op = "var") =>
        /\ raised = ""
        /\ decomp.out = << Cmp(call.op,
                               Wsum(<< call.args[1].args[1].n >>, << call.args[1].args[2] >>),
                               call.args[2]) >>

-----------------------------------------------------------------------------
(* Properties of the linearization of an element constraint                 *)

RECURSIVE Satisfies(_, _)
\* the assignment g satisfies a returned constraint: a comparison, or an
\* implication from a literal
Satisfies(g, e) ==
    IF e.op = "->" THEN (LinValue(e.args[1], g) = 1) => Satisfies(g, e.args[2])
    ELSE Holds(e, g)

\* the truth value of element(arr, idx) rel rhs under an assignment
ElementHolds(c, f) ==
    LET arr == c.args[1].args[1].args
        idx == LinValue(c.args[1].args[2], f)
    IN  /\ 0 <= idx
        /\ idx < Len(arr)
        /\ EvalComparison(c.op, LinValue(arr[idx + 1], f), LinValue(c.args[2], f))

\* a comparison element(arr, idx) rel rhs was linearized
ElementLinearized ==
    /\ pc = "linearized"
    /\ name = "linearize_constraint"
    /\ call.op \in Comparisons
    /\ call.args[1].op = "element"

RECURSIVE Extends(_, _, _, _)
\* some 0/1 value of the variables of Rest extends the assignment g to one
\* that satisfies every constraint of cons, whose variables are cv: the
\* variables are valued one after the other, and a partial assignment is
\* given up when it violates a constraint whose variables all have a value
Extends(g, Rest, cons, cv) ==
    IF Rest = {} THEN TRUE
    ELSE LET v == CHOOSE w \in Rest : TRUE
             Valued(h) ==
                 /\ \A i \in 1..Len(cons) :
                       (v \in cv[i] /\ cv[i] \subseteq DOMAIN h) => Satisfies(h, cons[i])
                 /\ Extends(h, Rest \ {v}, cons, cv)
         IN  \E b \in 0..1 : Valued(g @@ (v :> b))

\* the assignments of the variables of the caller's constraint that some
\* 0/1 value of the Boolean variables made by the call extends to one
\* satisfying all returned constraints
Feasible ==
    LET V == VarsOf(call)
        cv == [i \in 1..Len(decomp.out) |-> VarsOf(decomp.out[i])]
        Made == UNION {cv[i] : i \in 1..Len(decomp.out)} \ V
    IN  {f \in Assignments(V) :
            /\ \A i \in 1..Len(decomp.out) : cv[i] \subseteq V => Satisfies(f, decomp.out[i])
            /\ Extends(f, Made, decomp.out, cv)}

\* C25: for element(arr, idx) rel rhs and each of the six relations, some
\* 0/1 value of the selectors sigma satisfies the returned constraints
\* exactly when idx is within 0..|arr|-1 and arr[idx] rel rhs holds.
C25_ElementExact ==
    ElementLinearized =>
        Feasible = {f \in Assignments(VarsOf(call)) : ElementHolds(call, f)}

\* the same for the five relations other than the disequality
ElementExactButDisequality ==
    (ElementLinearized /\ call.op # "!=") =>
        Feasible = {f \in Assignments(VarsOf(call)) : ElementHolds(call, f)}

\* what the constraints returned for element(arr, idx) != rhs admit: idx
\* within range and arr[idx] > rhs
ElementDisequalityGreater ==
    (ElementLinearized /\ call.op = "!=") =>
        Feasible = {f \in Assignments(VarsOf(call)) :
                       ElementHolds(Cmp(">", call.args[1], call.args[2]), f)}

-----------------------------------------------------------------------------
(* Properties of the linearization of alldifferent                          *)

\* an alldifferent constraint was linearized
AllDifferentLinearized ==
    /\ pc = "linearized"
    /\ name = "linearize_constraint"
    /\ call.op = "alldifferent"

\* C24: for alldifferent over n arguments with values in lb..ub the call
\* returns one constraint sum(row) == 1 per argument, one constraint
\* sum(col) <= 1 per value and one link per argument, and some 0/1 matrix
\* sigma satisfies them exactly when the arguments are pairwise distinct.
C24_AllDifferentExact ==
    AllDifferentLinearized =>
        LET n == Len(call.args)
            m == 1 + LinMaxVal
            out == decomp.out
        IN  /\ Len(out) = n + m + n
            /\ \A i \in 1..n :
                  /\ out[i].op = "==" /\ out[i].args[2] = Const(1)
                  /\ Cardinality(VarsOf(out[i])) = m
                  /\ out[n + m + i].op = "==" /\ out[n + m + i].args[2] = call.args[i]
                  /\ VarsOf(out[n + m + i].args[1]) = VarsOf(out[i])
            /\ \A k \in 1..m :
                  /\ out[n + k].op = "<=" /\ out[n + k].args[2] = Const(1)
                  /\ Cardinality(VarsOf(out[n + k])) = n
            /\ Feasible = {f \in Assignments(VarsOf(call)) :
                              AllDifferentValue([i \in 1..n |-> f[call.args[i]]])}

\* alldifferent over three distinct variables was linearized
C24_Witness ==
    /\ AllDifferentLinearized
    /\ Len(call.args) = LinMaxArity
    /\ Cardinality(VarsOf(call)) = LinMaxArity
    /\ Len(decomp.out) = 2 * LinMaxArity + 1 + LinMaxVal

-----------------------------------------------------------------------------
(* A caller that posts one comparison with a numeric global constraint on   *)
(* one side, and the properties of the comparison branch                    *)

\* the other side of the comparison: a variable or a constant
CompareOthers == {InOther(2)[2], NewConst(1)}

\* the comparisons of the caller: each relation, the numeric global
\* constraint on the left or on the right
CompareExprs(k) ==
    UNION { { Obj(rel, << f, r >>, "", 0, k), Obj(rel, << r, f >>, "", 0, k) } :
            rel \in Comparisons, f \in NumAtoms(k + 1), r \in CompareOthers }

InitCompare ==
    /\ pc = "built"
    /\ name = "decompose_in_tree"
    /\ \E e \in CompareExprs(FirstId), supported \in SUBSET SupportNames,
          supported_nested \in SUBSET SupportNames :
          call = [lst |-> <<e>>, supported |-> supported,
                  supported_nested |-> supported_nested]
    /\ args = <<>>
    /\ raised = ""
    /\ value = NoOutcome
    /\ decomp = NoOutcome

SpecCompare == InitCompare /\ [][NextDecompose]_vars

RECURSIVE Named(_)
\* the names of the variables of an expression
Named(e) ==
    (IF e.op = "var" THEN {e.name} ELSE {})
    \cup UNION { Named(e.args[i]) : i \in 1..Len(e.args) }

\* the constraining constraints of G.decompose_comparison(rel, r), and all
\* its constraints, as top-level lists
Constraining(G, rel, r) == toplevel_list(DecomposeComparison(G, rel, r, 1).constraining)
Emitted(G, rel, r) ==
    Constraining(G, rel, r) \o toplevel_list(DecomposeComparison(G, rel, r, 1).defining)

\* the elements of a list
Elements(lst) == {lst[i] : i \in 1..Len(lst)}

\* the variables decompose_comparison(rel, r) of G makes
Allocated(G, rel, r) == DecomposeComparison(G, rel, r, 1).allocated

\* C21: for a top-level comparison G rel r whose left side G is a numeric
\* global constraint that is not supported, r a variable or a constant, the
\* call makes no auxiliary variable of its own and returns the constraints
\* of G.decompose_comparison(rel, r); for r rel G the returned list holds
\* the constraints of G.decompose_comparison(mirror(rel), r) and no others,
\* the constraining ones first, mirror exchanging < with > and <= with >=
\* and keeping == and !=. mirror is an involution, and a rel b holds exactly
\* when b mirror(rel) a holds, for all integers a and b.
C21_ComparisonFromAbove ==
    (pc \in {"returned", "done"} /\ name = "decompose_in_tree" /\ Len(call.lst) = 1
       /\ IsComparison(call.lst[1])) =>
        LET e == call.lst[1]
            left == HasDecomposeComparison(e.args[1])
            G == IF left THEN e.args[1] ELSE e.args[2]
            r == IF left THEN e.args[2] ELSE e.args[1]
            mirror == flipmap(e.op)
            rel == IF left THEN e.op ELSE mirror
        IN  (HasDecomposeComparison(G) /\ ~HasDecomposeComparison(r)
               /\ G.op \notin call.supported) =>
                /\ Len(decomp.out) >= Len(Constraining(G, rel, r))
                /\ SubSeq(decomp.out, 1, Len(Constraining(G, rel, r))) = Constraining(G, rel, r)
                /\ Elements(decomp.out) = Elements(Emitted(G, rel, r))
                /\ left => decomp.out = Emitted(G, rel, r)
                /\ decomp.st.fresh = Allocated(G, rel, r)
                /\ \A i \in 1..Len(decomp.out) : "aux" \notin Named(decomp.out[i])
                /\ flipmap(mirror) = e.op
                /\ (e.op \in {"==", "!="}) = (mirror = e.op)
                /\ (e.op \in {"<", ">"}) = (mirror \in {"<", ">"} \ {e.op})
                /\ (e.op \in {"<=", ">="}) = (mirror \in {"<=", ">="} \ {e.op})
                /\ \A a, b \in 0 - CmpMaxVal..CmpMaxVal :
                      EvalComparison(e.op, a, b) <=> EvalComparison(mirror, b, a)

\* y < min(x0, x1) was decomposed as min(x0, x1) > y
C21_Witness ==
    /\ pc = "returned"
    /\ name = "decompose_in_tree"
    /\ Len(call.lst) = 1
    /\ call.lst[1].op = "<"
    /\ call.lst[1].args[2].op = "min"
    /\ call.supported = {}
    /\ Cardinality(Elements(decomp.out)) = 4
    /\ decomp.out[1].op = ">"
    /\ decomp.out[1].args[1].name = "_min"

====
